---- MODULE Spec2Model ----
(***************************************************************************)
(* Discovery Endpoint Explorer: the FetchDiscovery component (state,       *)
(* handlers, effects and derived validations) and the discoveryUtils       *)
(* classifier functions.                                                   *)
(*                                                                         *)
(* Strings are sequences of tokens (" " is the whitespace token); JSON     *)
(* values are tagged records; a JSON text is a record holding the value    *)
(* JSON.parse yields for it together with its formatting.                  *)
(***************************************************************************)
EXTENDS Integers, Sequences, FiniteSets, TLC

VARIABLES
    isLoading, error, errorDetails, rawJson,
    keyEndpoints, capabilities, otherFields,
    viewMode, jwksData, jwksError, isLoadingJwks,
    lastAttemptedUrl, pasteError,
    primaryReqs,   \* primary fetches in flight (the awaited fetchDiscoveryDocument calls)
    jwksReqs,      \* key-set fetches in flight (the awaited fetch calls of handleFetchJwks)
    jwksDone,      \* history: outcome of the last key-set attempt completed for the loaded document
    loadFetches,   \* history: key-set fetches issued by the document-load effect for the loaded document
    navFetches,    \* history: key-set fetches issued by the view effect for the loaded document
    probe          \* inputs under construction: a parsed document, the text of the URL field

vars == <<isLoading, error, errorDetails, rawJson, keyEndpoints, capabilities,
          otherFields, viewMode, jwksData, jwksError, isLoadingJwks,
          lastAttemptedUrl, pasteError, primaryReqs, jwksReqs, jwksDone,
          loadFetches, navFetches, probe>>

----------------------------------------------------------------------------
(* Bounds *)

MaxTriggers == 2      \* cap of the two issue counters
MaxEdits == 2         \* fields set on a base document in the pure-function specification
MaxParts == 4         \* parts typed into the URL field in the URL specification
MaxKeyLen == 3        \* characters typed into a key in the label specification

----------------------------------------------------------------------------
(* JSON values *)

JUndef == [t |-> "undefined"]
JNull == [t |-> "null"]
JInf == [t |-> "inf"]          \* the number a literal such as 1e999 parses to
JBool(b) == [t |-> "bool", b |-> b]
JNum(n) == [t |-> "num", n |-> n]
JStr(s) == [t |-> "str", s |-> s]
JArr(a) == [t |-> "arr", a |-> a]
JObj(o) == [t |-> "obj", o |-> o]   \* o: sequence of [k, v], keys distinct, insertion order

\* typeof v === "object" (null included)
TypeofObject(v) == v.t \in {"null", "arr", "obj"}

\* JavaScript truthiness
Truthy(v) ==
    CASE v.t \in {"undefined", "null"} -> FALSE
      [] v.t = "bool" -> v.b
      [] v.t = "num" -> v.n # 0
      [] v.t = "str" -> v.s # <<>>
      [] OTHER -> TRUE

Whitespace == {" ", "  ", "\n"}

RECURSIVE Trim(_)
Trim(s) ==
    IF s = <<>> THEN s
    ELSE IF Head(s) \in Whitespace THEN Trim(Tail(s))
    ELSE IF s[Len(s)] \in Whitespace THEN Trim(SubSeq(s, 1, Len(s) - 1))
    ELSE s

\* typeof v === "string" && v.trim()
NonBlankString(v) == v.t = "str" /\ Trim(v.s) # <<>>

\* Array.isArray(v) && v.length > 0 negated as the code writes it
NonEmptyArray(v) == v.t = "arr" /\ Len(v.a) > 0

\* Object.keys(data): own keys in insertion order; the indices for an array
ObjectKeys(data) ==
    CASE data.t = "obj" -> [i \in 1..Len(data.o) |-> data.o[i].k]
      [] data.t = "arr" -> [i \in 1..Len(data.a) |-> ToString(i - 1)]
      [] OTHER -> <<>>

\* obj[key]
Get(data, key) ==
    CASE data.t = "obj" ->
            IF \E i \in 1..Len(data.o) : data.o[i].k = key
            THEN data.o[CHOOSE i \in 1..Len(data.o) : data.o[i].k = key].v
            ELSE JUndef
      [] data.t = "arr" ->
            IF \E i \in 1..Len(data.a) : ToString(i - 1) = key
            THEN data.a[CHOOSE i \in 1..Len(data.a) : ToString(i - 1) = key]
            ELSE JUndef
      [] OTHER -> JUndef

----------------------------------------------------------------------------
(* JSON texts *)

NoText == [fmt |-> "empty"]                       \* the empty string ""
\* not valid JSON; m is the parser's message, r the text, one token per character
BadText(m, r) == [fmt |-> "invalid", msg |-> m, raw |-> r]
JsonText(v, f) == [fmt |-> f, val |-> v]          \* valid JSON text parsing to v

\* JSON.stringify turns non-finite numbers into null
RECURSIVE Finite(_)
Finite(v) ==
    CASE v.t = "inf" -> JNull
      [] v.t = "arr" -> JArr([i \in 1..Len(v.a) |-> Finite(v.a[i])])
      [] v.t = "obj" -> JObj([i \in 1..Len(v.o) |-> [k |-> v.o[i].k, v |-> Finite(v.o[i].v)]])
      [] OTHER -> v

\* JSON.stringify(data, null, 2)
JSONstringify2(data) == JsonText(Finite(data), "indent2")

ParsesAsJson(text) == text.fmt \notin {"empty", "invalid"}

\* JSON.parse(text) for a text that parses
JSONparse(text) == text.val

----------------------------------------------------------------------------
(* URL parsing (the URL constructor) *)

SchemeTokens == {"https:", "http:", "HTTPS:"}

\* the parser lower-cases the scheme
Protocol(tok) == IF tok = "HTTPS:" THEN "https:" ELSE tok

Slashes == {"/", "//"}

RECURSIVE SkipSlashes(_)
SkipSlashes(s) ==
    IF s # <<>> /\ Head(s) \in Slashes THEN SkipSlashes(Tail(s)) ELSE s

\* a token that opens the query string
SearchTokens == {"?x=1"}

IsHostToken(tok) == tok \notin (Whitespace \cup Slashes \cup SchemeTokens \cup SearchTokens)

\* the index of the first query token of s, Len(s) + 1 when it has none
SearchStart(s) ==
    IF \E i \in 1..Len(s) : s[i] \in SearchTokens
    THEN CHOOSE i \in 1..Len(s) :
            s[i] \in SearchTokens /\ \A j \in 1..(i - 1) : s[j] \notin SearchTokens
    ELSE Len(s) + 1

\* new URL(s): [ok |-> FALSE] when it throws
ParseURL(s) ==
    LET t == Trim(s)
        afterScheme == IF t = <<>> THEN <<>> ELSE SkipSlashes(Tail(t))
    IN  IF /\ t # <<>>
           /\ Head(t) \in SchemeTokens
           /\ afterScheme # <<>>
           /\ IsHostToken(Head(afterScheme))
           /\ (Len(afterScheme) > 1 => afterScheme[2] \in Slashes \cup SearchTokens)
        THEN [ok |-> TRUE,
              protocol |-> Protocol(Head(t)),
              host |-> Head(afterScheme),
              pathname |-> IF SearchStart(afterScheme) = 2 THEN <<"/">>
                           ELSE SubSeq(afterScheme, 2, SearchStart(afterScheme) - 1),
              search |-> SubSeq(afterScheme, SearchStart(afterScheme), Len(afterScheme))]
        ELSE [ok |-> FALSE]

----------------------------------------------------------------------------
(* Value flattening *)

RECURSIVE Text(_)
\* the tokens of a text as one string
Text(toks) == IF toks = <<>> THEN "" ELSE Head(toks) \o Text(Tail(toks))

RECURSIVE JoinSeqs(_, _)
\* concatenation of the strings of parts with sep between them
JoinSeqs(parts, sep) ==
    IF parts = <<>> THEN <<>>
    ELSE IF Len(parts) = 1 THEN parts[1]
    ELSE parts[1] \o sep \o JoinSeqs(Tail(parts), sep)

RECURSIVE ElementString(_)
\* the string an element contributes to Array.prototype.join / String(v)
ElementString(v) ==
    CASE v.t \in {"undefined", "null"} -> <<>>
      [] v.t = "bool" -> IF v.b THEN <<"true">> ELSE <<"false">>
      [] v.t = "num" -> <<ToString(v.n)>>
      [] v.t = "inf" -> <<"Infinity">>
      [] v.t = "str" -> v.s
      [] v.t = "arr" -> JoinSeqs([i \in 1..Len(v.a) |-> ElementString(v.a[i])], <<",">>)
      [] OTHER -> <<"[object Object]">>

\* val.join(", ")
ArrayJoin(val) == JoinSeqs([i \in 1..Len(val.a) |-> ElementString(val.a[i])], <<",", " ">>)

\* String(val) for a scalar that is neither null nor undefined
StringOf(val) == ElementString(val)

Indent(depth) == [i \in 1..depth |-> "  "]

RECURSIVE Stringify(_, _, _)
\* JSON.stringify(v) when pretty is FALSE, JSON.stringify(v, null, 2) when TRUE
Stringify(v, pretty, depth) ==
    LET nl(d) == IF pretty THEN <<"\n">> \o Indent(d) ELSE <<>>
        sepTok == <<",">>
        colon == IF pretty THEN <<":", " ">> ELSE <<":">>
    IN  CASE v.t \in {"null", "inf", "undefined"} -> <<"null">>
          [] v.t = "bool" -> IF v.b THEN <<"true">> ELSE <<"false">>
          [] v.t = "num" -> <<ToString(v.n)>>
          [] v.t = "str" -> <<"\"">> \o v.s \o <<"\"">>
          [] v.t = "arr" ->
                IF v.a = <<>> THEN <<"[", "]">>
                ELSE <<"[">>
                     \o JoinSeqs([i \in 1..Len(v.a) |->
                                    nl(depth + 1) \o Stringify(v.a[i], pretty, depth + 1)], sepTok)
                     \o nl(depth) \o <<"]">>
          [] OTHER ->
                IF v.o = <<>> THEN <<"{", "}">>
                ELSE <<"{">>
                     \o JoinSeqs([i \in 1..Len(v.o) |->
                                    nl(depth + 1) \o <<"\"", v.o[i].k, "\"">> \o colon
                                    \o Stringify(v.o[i].v, pretty, depth + 1)], sepTok)
                     \o nl(depth) \o <<"}">>

----------------------------------------------------------------------------
(* Classifier: discoveryUtils *)

KEY_ENDPOINT_KEYS ==
    <<"issuer", "authorization_endpoint", "token_endpoint", "userinfo_endpoint",
      "jwks_uri", "registration_endpoint", "revocation_endpoint",
      "introspection_endpoint", "end_session_endpoint">>

CAPABILITY_KEYS ==
    <<"claims_supported", "scopes_supported", "code_challenge_methods_supported",
      "response_types_supported", "dpop_signing_alg_values_supported",
      "grant_types_supported", "id_token_signing_alg_values_supported",
      "response_modes_supported", "subject_types_supported",
      "token_endpoint_auth_methods_supported">>

Range(s) == {s[i] : i \in 1..Len(s)}

EXCLUDED_KEYS == Range(KEY_ENDPOINT_KEYS) \cup Range(CAPABILITY_KEYS)

\* !data || typeof data !== "object"
NotAnObject(data) == ~Truthy(data) \/ ~TypeofObject(data)

getKeyEndpoints(data) ==
    IF NotAnObject(data) THEN <<>>
    ELSE LET keep(key) == NonBlankString(Get(data, key))
             field(key) == [key |-> key, value |-> Get(data, key).s]
         IN  LET kept == SelectSeq(KEY_ENDPOINT_KEYS, keep)
             IN  [i \in 1..Len(kept) |-> field(kept[i])]

\* the display string of a capability value
CapabilityValue(val) ==
    IF val.t = "arr" THEN ArrayJoin(val)
    ELSE IF val.t = "str" THEN val.s
    ELSE Stringify(val, FALSE, 0)

getCapabilities(data) ==
    IF NotAnObject(data) THEN <<>>
    ELSE LET keep(key) ==
                 LET val == Get(data, key)
                 IN  val.t \notin {"undefined", "null"} /\ Trim(CapabilityValue(val)) # <<>>
             field(key) == [key |-> key, value |-> CapabilityValue(Get(data, key))]
         IN  LET kept == SelectSeq(CAPABILITY_KEYS, keep)
             IN  [i \in 1..Len(kept) |-> field(kept[i])]

\* the display string of a value of the other group
OtherValue(val) ==
    IF val.t = "arr" THEN ArrayJoin(val)
    ELSE IF val.t = "str" THEN val.s
    ELSE IF TypeofObject(val) THEN Stringify(val, TRUE, 0)
    ELSE StringOf(val)

\* getOtherFields without the EXCLUDED_KEYS test
getOtherFieldsAllKeys(data) ==
    IF NotAnObject(data) THEN <<>>
    ELSE LET keep(key) ==
                 LET val == Get(data, key)
                 IN  val.t \notin {"undefined", "null"} /\ Trim(OtherValue(val)) # <<>>
             field(key) == [key |-> key, value |-> OtherValue(Get(data, key))]
         IN  LET kept == SelectSeq(ObjectKeys(data), keep)
             IN  [i \in 1..Len(kept) |-> field(kept[i])]

\* getOtherFields without the value.trim() test
getOtherFieldsKeepBlank(data) ==
    IF NotAnObject(data) THEN <<>>
    ELSE LET keep(key) ==
                 key \notin EXCLUDED_KEYS /\ Get(data, key).t \notin {"undefined", "null"}
             field(key) == [key |-> key, value |-> OtherValue(Get(data, key))]
         IN  LET kept == SelectSeq(ObjectKeys(data), keep)
             IN  [i \in 1..Len(kept) |-> field(kept[i])]

getOtherFields(data) ==
    IF NotAnObject(data) THEN <<>>
    ELSE LET keep(key) ==
                 LET val == Get(data, key)
                 IN  /\ key \notin EXCLUDED_KEYS
                     /\ val.t \notin {"undefined", "null"}
                     /\ Trim(OtherValue(val)) # <<>>
             field(key) == [key |-> key, value |-> OtherValue(Get(data, key))]
         IN  LET kept == SelectSeq(ObjectKeys(data), keep)
             IN  [i \in 1..Len(kept) |-> field(kept[i])]

----------------------------------------------------------------------------
(* Derived values of the component (useMemo) *)

hasJwksUri(raw) ==
    IF raw = NoText THEN FALSE
    ELSE IF ~ParsesAsJson(raw) THEN FALSE
    ELSE LET d == JSONparse(raw)
         IN  Truthy(d) /\ TypeofObject(d) /\ NonBlankString(Get(d, "jwks_uri"))

\* null is JNull
discoveryObj(raw) ==
    IF raw = NoText THEN JNull
    ELSE IF ~ParsesAsJson(raw) THEN JNull
    ELSE LET d == JSONparse(raw)
         IN  IF Truthy(d) /\ TypeofObject(d) THEN d ELSE JNull

REQUIRED ==
    <<[key |-> "issuer", kind |-> "string"],
      [key |-> "authorization_endpoint", kind |-> "string"],
      [key |-> "jwks_uri", kind |-> "string"],
      [key |-> "response_types_supported", kind |-> "stringArray"],
      [key |-> "subject_types_supported", kind |-> "stringArray"],
      [key |-> "id_token_signing_alg_values_supported", kind |-> "stringArray"]>>

\* RequiredFails accepting a blank string
RequiredFailsBlankOk(obj, f) ==
    LET v == Get(obj, f.key)
    IN  IF f.kind = "string" THEN v.t # "str" ELSE ~NonEmptyArray(v)

\* the check one required field fails
RequiredFails(obj, f) ==
    LET v == Get(obj, f.key)
    IN  IF f.kind = "string" THEN ~NonBlankString(v) ELSE ~NonEmptyArray(v)

requiredMissing(obj) ==
    IF obj = JNull THEN <<>>
    ELSE LET fails(f) == RequiredFails(obj, f)
             missing == SelectSeq(REQUIRED, fails)
         IN  [i \in 1..Len(missing) |-> missing[i].key]

NoValidation == [status |-> "none"]     \* null

Validation(st, msg) == [status |-> st, message |-> msg]

\* jwksContentValidation rejecting an empty keys array
jwksContentValidationNonEmpty(has, loading, err, data) ==
    IF ~has THEN NoValidation
    ELSE IF loading THEN Validation("pending", "Checking JWKS...")
    ELSE IF err # "" THEN Validation("error", err)
    ELSE IF ~Truthy(data) THEN Validation("pending", "JWKS not fetched yet")
    ELSE IF ~Truthy(data) \/ ~TypeofObject(data) THEN Validation("error", "JWKS is not an object")
    ELSE IF ~NonEmptyArray(Get(data, "keys")) THEN Validation("error", "JWKS missing keys[]")
    ELSE Validation("pass", "JWKS keys[]: " \o ToString(Len(Get(data, "keys").a)))

jwksContentValidation(has, loading, err, data) ==
    IF ~has THEN NoValidation
    ELSE IF loading THEN Validation("pending", "Checking JWKS...")
    ELSE IF err # "" THEN Validation("error", err)
    ELSE IF ~Truthy(data) THEN Validation("pending", "JWKS not fetched yet")
    ELSE IF ~Truthy(data) \/ ~TypeofObject(data) THEN Validation("error", "JWKS is not an object")
    ELSE IF Get(data, "keys").t # "arr" THEN Validation("error", "JWKS missing keys[]")
    ELSE Validation("pass", "JWKS keys[]: " \o ToString(Len(Get(data, "keys").a)))

\* bareEndpointCheck accepting any scheme
bareEndpointCheckAnyScheme(v) ==
    IF ~NonBlankString(v) THEN Validation("error", "Missing")
    ELSE IF ~ParseURL(v.s).ok THEN Validation("error", "Invalid URL")
    ELSE Validation("pass", "HTTPS absolute URL")

\* the per-key check of the loop of endpointValidation
bareEndpointCheck(v) ==
    IF ~NonBlankString(v) THEN Validation("error", "Missing")
    ELSE LET u == ParseURL(v.s)
         IN  IF ~u.ok THEN Validation("error", "Invalid URL")
             ELSE IF u.protocol # "https:" THEN Validation("error", "Must be HTTPS")
             ELSE Validation("pass", "HTTPS absolute URL")

\* foldJwks consulting the key-set validation whatever the bare check said
foldJwksAlways(bare, jcv) ==
    IF jcv # NoValidation
    THEN IF jcv.status = "pass" THEN Validation("pass", jcv.message)
         ELSE IF jcv.status = "pending" THEN Validation("pending", jcv.message)
         ELSE Validation("error", jcv.message)
    ELSE bare

\* the jwks_uri entry after the fold of the key-set validation
foldJwks(bare, jcv) ==
    IF bare.status = "pass" /\ jcv # NoValidation
    THEN IF jcv.status = "pass" THEN Validation("pass", jcv.message)
         ELSE IF jcv.status = "pending" THEN Validation("pending", jcv.message)
         ELSE Validation("error", jcv.message)
    ELSE bare

\* a function from the endpoint keys to validations; the empty function for a null document
endpointValidation(obj, jcv) ==
    IF obj = JNull THEN [key \in {} |-> NoValidation]
    ELSE [key \in Range(KEY_ENDPOINT_KEYS) |->
            IF key = "jwks_uri"
            THEN foldJwks(bareEndpointCheck(Get(obj, key)), jcv)
            ELSE bareEndpointCheck(Get(obj, key))]

\* the keys capabilityValidation walks, in its order
VALIDATED_CAPABILITY_KEYS ==
    <<"claims_supported", "scopes_supported", "code_challenge_methods_supported",
      "response_types_supported", "dpop_signing_alg_values_supported",
      "grant_types_supported", "id_token_signing_alg_values_supported",
      "response_modes_supported", "subject_types_supported",
      "token_endpoint_auth_methods_supported">>

\* capabilityCheck accepting the empty array
capabilityCheckAllowEmpty(v) ==
    IF v.t \in {"undefined", "null"} THEN Validation("error", "Missing")
    ELSE IF v.t # "arr" THEN Validation("error", "Expected non-empty array")
    ELSE Validation("pass", ToString(Len(v.a)) \o " items")

\* the body of the loop of capabilityValidation
capabilityCheck(v) ==
    IF v.t \in {"undefined", "null"} THEN Validation("error", "Missing")
    ELSE IF v.t # "arr" \/ Len(v.a) = 0 THEN Validation("error", "Expected non-empty array")
    ELSE Validation("pass", ToString(Len(v.a)) \o " items")

\* a function from the capability keys to validations; the empty function for a null document
capabilityValidation(obj) ==
    IF obj = JNull THEN [key \in {} |-> NoValidation]
    ELSE [key \in Range(VALIDATED_CAPABILITY_KEYS) |-> capabilityCheck(Get(obj, key))]

----------------------------------------------------------------------------
(* Retrieval: discoveryUtils *)

DEFAULT_OIDC_DISCOVERY_PATH == <<"/", ".well-known/openid-configuration">>
DEFAULT_OAUTH_DISCOVERY_PATH == <<"/", ".well-known/oauth-authorization-server">>

\* s.includes(sub)
Includes(s, sub) ==
    \E i \in 1..(Len(s) + 1) :
        i + Len(sub) - 1 <= Len(s) /\ SubSeq(s, i, i + Len(sub) - 1) = sub

\* pathname.replace(/\/$/, "")
StripTrailingSlash(pathname) ==
    IF pathname # <<>> /\ pathname[Len(pathname)] = "/"
    THEN SubSeq(pathname, 1, Len(pathname) - 1)
    ELSE pathname

\* buildDiscoveryUrl appending the path to the pathname as it is
buildDiscoveryUrlKeepSlash(baseUrl, path) ==
    LET trimmed == Trim(baseUrl)
        url == ParseURL(trimmed)
        pathToUse == IF path # <<>> /\ Head(path) = "/" THEN path ELSE <<"/">> \o path
    IN  IF trimmed = <<>> THEN <<>>
        ELSE IF ~url.ok THEN <<>>
        ELSE <<url.protocol, "//", url.host>> \o url.pathname \o pathToUse \o url.search

buildDiscoveryUrl(baseUrl, path) ==
    LET trimmed == Trim(baseUrl)
        url == ParseURL(trimmed)
        pathToUse == IF path # <<>> /\ Head(path) = "/" THEN path ELSE <<"/">> \o path
    IN  IF trimmed = <<>> THEN <<>>
        ELSE IF ~url.ok THEN <<>>
        ELSE <<url.protocol, "//", url.host>>
             \o (IF url.pathname = <<"/">> THEN pathToUse
                 ELSE StripTrailingSlash(url.pathname) \o pathToUse)
             \o url.search

\* the server's answer to a fetch, or its failure; statusText and message are texts:
\* sequences of tokens, the words "cors", "network" and "failed to fetch" being
\* tokens of their own in whatever case
HttpResponse(status, statusText, body) ==
    [kind |-> "response", status |-> status, statusText |-> statusText, body |-> body]
Thrown(message) == [kind |-> "throw", message |-> message]

\* response.ok
Ok(resp) == resp.status >= 200 /\ resp.status <= 299

Unreadable == [fmt |-> "unreadable", msg |-> "body stream error"]   \* response.text() rejects

\* the characters of a body that was read: one token per character for a text that
\* is not JSON, the tokens of the JSON text otherwise
BodyText(body) ==
    CASE body.fmt = "empty" -> <<>>
      [] body.fmt = "invalid" -> body.raw
      [] OTHER -> Stringify(body.val, body.fmt = "indent2", 0)

\* slice returning the whole text
Slice500Whole(text) == text

\* text.slice(0, 500)
Slice500(text) == SubSeq(text, 1, IF Len(text) < 500 THEN Len(text) ELSE 500)

\* String.prototype.toLowerCase on a token
ToLowerCase(tok) ==
    CASE tok = "CORS" -> "cors"
      [] tok = "Cors" -> "cors"
      [] tok = "Network" -> "network"
      [] tok = "Failed to fetch" -> "failed to fetch"
      [] OTHER -> tok

\* text.toLowerCase().includes(word)
IncludesWord(text, word) == \E i \in 1..Len(text) : ToLowerCase(text[i]) = word

\* the test for isCors
IsCorsMessage(message) ==
    \/ IncludesWord(message, "cors")
    \/ IncludesWord(message, "network")
    \/ IncludesWord(message, "failed to fetch")

\* errorDetails || undefined
OrUndefined(text) == IF text = <<>> THEN JUndef ELSE JStr(text)

CorsDetails ==
    <<"The request was blocked by ", "CORS",
      " policy or the server is unreachable. Try accessing the URL directly in your browser or configure ",
      "CORS", " on the server.">>

Success(data) == [success |-> TRUE, data |-> data, rawJson |-> JSONstringify2(data)]

\* the result of fetchDiscoveryDocument decided before any request is sent, if any
ImmediateResult(url) ==
    IF Trim(url) = <<>> THEN [success |-> FALSE, error |-> <<"Please enter a discovery URL">>]
    ELSE [success |-> FALSE, error |-> <<"Invalid URL format">>]

SendsRequest(url) == Trim(url) # <<>> /\ ParseURL(url).ok

\* the result of fetchDiscoveryDocument for the answer resp
FetchResult(resp) ==
    IF resp.kind = "throw"
    THEN IF IsCorsMessage(resp.message)
         THEN [success |-> FALSE,
               error |-> <<"Network", "/", "CORS", " error: Cannot reach the server">>,
               errorDetails |-> JStr(CorsDetails)]
         ELSE [success |-> FALSE,
               error |-> <<"Network", " error: ">> \o resp.message,
               errorDetails |-> JUndef]
    ELSE IF ~Ok(resp)
    THEN [success |-> FALSE,
          error |-> <<"HTTP ", ToString(resp.status), " ">> \o resp.statusText,
          errorDetails |-> IF resp.body.fmt = "unreadable" THEN JUndef
                           ELSE OrUndefined(Slice500(BodyText(resp.body))),
          statusCode |-> resp.status]
    ELSE IF resp.body.fmt = "unreadable"
    THEN [success |-> FALSE,
          error |-> <<"Failed to read response body">>,
          errorDetails |-> JStr(<<resp.body.msg>>)]
    ELSE IF ~ParsesAsJson(resp.body)
    THEN [success |-> FALSE,
          error |-> <<"JSON parse error: Response is not valid JSON">>,
          errorDetails |-> JStr(Slice500(BodyText(resp.body)))]
    ELSE Success(JSONparse(resp.body))

fetchDiscoveryDocument(url, resp) ==
    IF SendsRequest(url) THEN FetchResult(resp) ELSE ImmediateResult(url)

----------------------------------------------------------------------------
(* Inputs of the model *)

S(tok) == JStr(<<tok>>)
Field(k, v) == [k |-> k, v |-> v]

UrlA == <<"https:", "//", "a.example", "/", "jwks">>
UrlB == <<"https:", "//", "b.example", "/", "jwks">>
UrlHttp == <<"http:", "//", "a.example", "/", "jwks">>
NotAUrl == <<"not", " ", "a", " ", "url">>
Issuer == <<"https:", "//", "a.example">>

DocA == JObj(<<Field("issuer", JStr(Issuer)), Field("jwks_uri", JStr(UrlA)),
               Field("custom", S("x"))>>)
DocB == JObj(<<Field("jwks_uri", JStr(UrlB))>>)
DocHttp == JObj(<<Field("jwks_uri", JStr(UrlHttp))>>)
DocBadUrl == JObj(<<Field("jwks_uri", JStr(NotAUrl))>>)
DocNoJwks == JObj(<<Field("issuer", JStr(Issuer))>>)

\* documents a server returns or a user pastes
Docs == {DocA, DocB, DocHttp, DocBadUrl, DocNoJwks, JNull}

NotJson == BadText("Unexpected token < in JSON at position 0", <<"<", "h", "t", "m", "l", ">">>)

StatusOk == <<"OK">>
FailedToFetch == <<"Failed to fetch">>

\* what the user types into the URL field
UrlInputs ==
    {<<>>, <<" ">>, Issuer, Issuer \o <<"/">>, Issuer \o DEFAULT_OIDC_DISCOVERY_PATH, NotAUrl}

\* what the user pastes into the text area (non-blank: the button is disabled otherwise)
PasteTexts == {JsonText(d, "compact") : d \in Docs} \cup {NotJson}

\* answers to the primary fetch
PrimaryAnswers ==
    {HttpResponse(200, StatusOk, JsonText(d, "compact")) : d \in Docs}
    \cup {HttpResponse(200, StatusOk, NotJson), HttpResponse(200, StatusOk, Unreadable),
          HttpResponse(404, <<"Not Found">>, NotJson),
          Thrown(FailedToFetch), Thrown(<<"Load failed">>)}

\* bodies of a key-set answer
JwksBodies ==
    {JObj(<<Field("keys", JArr(<<>>))>>),
     JObj(<<Field("keys", JArr(<<JObj(<<Field("kty", S("RSA"))>>)>>))>>),
     JObj(<<Field("notkeys", JArr(<<>>))>>),
     JNull, JNum(0), JNum(5), JBool(FALSE), JStr(<<>>), S("jwks")}

\* answers to the key-set fetch
JwksAnswers ==
    {HttpResponse(200, StatusOk, JsonText(b, "compact")) : b \in JwksBodies}
    \cup {HttpResponse(200, StatusOk, NotJson),
          HttpResponse(500, <<"Internal Server Error">>, NotJson),
          Thrown(FailedToFetch)}

----------------------------------------------------------------------------
(* The component: state, effects, handlers *)

ViewModes == {"endpoints", "capabilities", "others", "raw-json", "jwks"}

\* the state of the component as one record (what a render closes over)
UI ==
    [isLoading |-> isLoading, error |-> error, errorDetails |-> errorDetails,
     rawJson |-> rawJson, keyEndpoints |-> keyEndpoints, capabilities |-> capabilities,
     otherFields |-> otherFields, viewMode |-> viewMode, jwksData |-> jwksData,
     jwksError |-> jwksError, isLoadingJwks |-> isLoadingJwks,
     lastAttemptedUrl |-> lastAttemptedUrl, pasteError |-> pasteError]

\* useState initial values
InitialUI ==
    [isLoading |-> FALSE, error |-> <<>>, errorDetails |-> <<>>,
     rawJson |-> NoText, keyEndpoints |-> <<>>, capabilities |-> <<>>,
     otherFields |-> <<>>, viewMode |-> "endpoints", jwksData |-> JNull,
     jwksError |-> "", isLoadingJwks |-> FALSE,
     lastAttemptedUrl |-> <<>>, pasteError |-> ""]

\* the document handleFetchJwks reads from the rawJson of its closure
JwksCallData(c) == IF c.rawJson = NoText THEN JNull ELSE JSONparse(c.rawJson)

\* handleFetchJwks reaches its fetch
JwksCallSends(c) ==
    /\ ~NotAnObject(JwksCallData(c))
    /\ NonBlankString(Get(JwksCallData(c), "jwks_uri"))

\* handleFetchJwks up to its await: the state s after the set-calls of a call closed over c
handleFetchJwks(s, c) ==
    IF NotAnObject(JwksCallData(c))
    THEN [s EXCEPT !.jwksError = "No discovery document loaded"]
    ELSE IF ~NonBlankString(Get(JwksCallData(c), "jwks_uri"))
    THEN [s EXCEPT !.jwksError = "No jwks_uri found in discovery document"]
    ELSE [s EXCEPT !.isLoadingJwks = TRUE, !.jwksError = "", !.jwksData = JNull]

\* the guard shared by the two auto-fetch effects
AutoFetchGuard(c) ==
    /\ ~Truthy(c.jwksData)
    /\ c.jwksError = ""
    /\ ~c.isLoadingJwks
    /\ c.rawJson # NoText

\* Effects without the two view-reset effects
EffectsNoViewReset(prev, cur) ==
    LET has == hasJwksUri(cur.rawJson)
        hasChanged == has # hasJwksUri(prev.rawJson)
        viewChanged == prev.viewMode # cur.viewMode
        byView == viewChanged /\ cur.viewMode = "jwks" /\ AutoFetchGuard(cur)
        byLoad == (hasChanged \/ prev.rawJson # cur.rawJson) /\ has /\ AutoFetchGuard(cur)
        s2 == IF byView \/ byLoad THEN handleFetchJwks(cur, cur) ELSE cur
        uri == Get(JwksCallData(cur), "jwks_uri").s
    IN  [ui |-> s2,
         issued |-> (IF byView /\ JwksCallSends(cur) THEN <<[uri |-> uri, by |-> "view"]>> ELSE <<>>)
                    \o (IF byLoad /\ JwksCallSends(cur) THEN <<[uri |-> uri, by |-> "load"]>> ELSE <<>>)]

\* the effects of one commit: prev is the previous render, cur the committed one
Effects(prev, cur) ==
    LET has == hasJwksUri(cur.rawJson)
        hasChanged == has # hasJwksUri(prev.rawJson)
        viewChanged == prev.viewMode # cur.viewMode
        othersChanged == Len(prev.otherFields) # Len(cur.otherFields)
        resetJwks == (hasChanged \/ viewChanged) /\ ~has /\ cur.viewMode = "jwks"
        resetOthers == (othersChanged \/ viewChanged)
                       /\ Len(cur.otherFields) = 0 /\ cur.viewMode = "others"
        byView == viewChanged /\ cur.viewMode = "jwks" /\ AutoFetchGuard(cur)
        byLoad == (hasChanged \/ prev.rawJson # cur.rawJson) /\ has /\ AutoFetchGuard(cur)
        s1 == IF resetJwks \/ resetOthers THEN [cur EXCEPT !.viewMode = "endpoints"] ELSE cur
        s2 == IF byView \/ byLoad THEN handleFetchJwks(s1, cur) ELSE s1
        uri == Get(JwksCallData(cur), "jwks_uri").s
    IN  [ui |-> s2,
         issued |-> (IF byView /\ JwksCallSends(cur) THEN <<[uri |-> uri, by |-> "view"]>> ELSE <<>>)
                    \o (IF byLoad /\ JwksCallSends(cur) THEN <<[uri |-> uri, by |-> "load"]>> ELSE <<>>)]

RECURSIVE Settle(_, _, _)
\* renders and effects repeated until no effect changes the state
Settle(prev, cur, issued) ==
    CHOOSE r \in {IF e.ui = cur THEN [ui |-> cur, issued |-> issued \o e.issued]
                  ELSE Settle(cur, e.ui, issued \o e.issued) : e \in {Effects(prev, cur)}} : TRUE

NoOutcome == [kind |-> "none"]

Count(seq, by) == Cardinality({i \in 1..Len(seq) : seq[i].by = by})

Min(a, b) == IF a < b THEN a ELSE b

\* the step of a handler that leaves the state h: render, effects, and the history variables
Commit(h, reqs, done) ==
    \E r \in {Settle(u, s, <<>>) : u \in {UI}, s \in {h}} :
    LET docChanged == r.ui.rawJson # rawJson
        kept == IF docChanged
                THEN [i \in 1..Len(reqs) |-> [reqs[i] EXCEPT !.cur = FALSE]]
                ELSE reqs
        new == [i \in 1..Len(r.issued) |->
                    [uri |-> r.issued[i].uri, by |-> r.issued[i].by, cur |-> TRUE]]
    IN  /\ isLoading' = r.ui.isLoading
        /\ error' = r.ui.error
        /\ errorDetails' = r.ui.errorDetails
        /\ rawJson' = r.ui.rawJson
        /\ keyEndpoints' = r.ui.keyEndpoints
        /\ capabilities' = r.ui.capabilities
        /\ otherFields' = r.ui.otherFields
        /\ viewMode' = r.ui.viewMode
        /\ jwksData' = r.ui.jwksData
        /\ jwksError' = r.ui.jwksError
        /\ isLoadingJwks' = r.ui.isLoadingJwks
        /\ lastAttemptedUrl' = r.ui.lastAttemptedUrl
        /\ pasteError' = r.ui.pasteError
        /\ jwksReqs' = kept \o new
        /\ jwksDone' = IF docChanged THEN NoOutcome ELSE done
        /\ loadFetches' = Min(MaxTriggers,
                              (IF docChanged THEN 0 ELSE loadFetches) + Count(r.issued, "load"))
        /\ navFetches' = Min(MaxTriggers,
                             (IF docChanged THEN 0 ELSE navFetches) + Count(r.issued, "view"))

\* the URL handleFetch hands to fetchDiscoveryDocument for a non-blank input
ResolveUrl(urlInput, resolvedPath) ==
    LET urlToFetch == Trim(urlInput)
        u == ParseURL(urlToFetch)
    IN  IF Includes(urlToFetch, resolvedPath) THEN urlToFetch
        ELSE IF u.ok
        THEN IF u.pathname = <<>> \/ u.pathname = <<"/">>
             THEN buildDiscoveryUrl(urlToFetch, resolvedPath)
             ELSE urlToFetch
        ELSE buildDiscoveryUrl(urlToFetch, resolvedPath)

\* handleFetch with a blank input
HandleFetchEmpty(urlInput) ==
    /\ ~isLoading
    /\ Trim(urlInput) = <<>>
    /\ Commit([UI EXCEPT
                 !.error = <<"Please enter a base URL (e.g. https://auth.example.com) or a full discovery URL.">>,
                 !.errorDetails = <<>>, !.rawJson = NoText, !.keyEndpoints = <<>>,
                 !.capabilities = <<>>, !.otherFields = <<>>, !.jwksData = JNull],
              jwksReqs, jwksDone)
    /\ UNCHANGED <<primaryReqs, probe>>

\* the set-calls of handleFetch before its await, on the state s
FetchStarted(s, urlToFetch) ==
    [s EXCEPT !.isLoading = TRUE, !.error = <<>>, !.errorDetails = <<>>,
              !.pasteError = "", !.rawJson = NoText, !.keyEndpoints = <<>>,
              !.capabilities = <<>>, !.otherFields = <<>>, !.jwksData = JNull,
              !.jwksError = "", !.lastAttemptedUrl = urlToFetch]

\* HandleFetchUrl without the isLoading test of the button and of the Enter key
HandleFetchUrlUnguarded(urlInput) ==
    /\ Trim(urlInput) # <<>>
    /\ \E urlToFetch \in {ResolveUrl(urlInput, DEFAULT_OIDC_DISCOVERY_PATH)} :
           /\ Commit(FetchStarted(UI, urlToFetch), jwksReqs, jwksDone)
           /\ primaryReqs' = Append(primaryReqs, [url |-> urlToFetch])
    /\ UNCHANGED probe

\* handleFetch up to its await
HandleFetchUrl(urlInput) ==
    /\ ~isLoading
    /\ Trim(urlInput) # <<>>
    /\ \E urlToFetch \in {ResolveUrl(urlInput, DEFAULT_OIDC_DISCOVERY_PATH)} :
           /\ Commit(FetchStarted(UI, urlToFetch), jwksReqs, jwksDone)
           /\ primaryReqs' = Append(primaryReqs, [url |-> urlToFetch])
    /\ UNCHANGED probe

\* result.error ?? "Failed to fetch discovery document"
ErrorOf(result) ==
    IF "error" \in DOMAIN result THEN result.error
    ELSE <<"Failed to fetch discovery document">>

\* result.errorDetails ?? ""
DetailsOf(result) ==
    IF "errorDetails" \in DOMAIN result
    THEN IF result.errorDetails = JUndef THEN <<>> ELSE result.errorDetails.s
    ELSE <<>>

RemoveAt(seq, i) == SubSeq(seq, 1, i - 1) \o SubSeq(seq, i + 1, Len(seq))

\* FetchSucceeded dropping the result when a document has been loaded meanwhile
FetchSucceededUnlessLoaded(s, result) ==
    IF s.rawJson # NoText THEN [s EXCEPT !.isLoading = FALSE]
    ELSE [s EXCEPT !.rawJson = result.rawJson,
                   !.keyEndpoints = IF Truthy(result.data) THEN getKeyEndpoints(result.data) ELSE @,
                   !.capabilities = IF Truthy(result.data) THEN getCapabilities(result.data) ELSE @,
                   !.otherFields = IF Truthy(result.data) THEN getOtherFields(result.data) ELSE @,
                   !.error = <<>>, !.errorDetails = <<>>, !.lastAttemptedUrl = <<>>,
                   !.isLoading = FALSE]

\* the set-calls of handleFetch after its await for a successful result, on the state s
FetchSucceeded(s, result) ==
    [s EXCEPT !.rawJson = result.rawJson,
              !.keyEndpoints = IF Truthy(result.data) THEN getKeyEndpoints(result.data) ELSE @,
              !.capabilities = IF Truthy(result.data) THEN getCapabilities(result.data) ELSE @,
              !.otherFields = IF Truthy(result.data) THEN getOtherFields(result.data) ELSE @,
              !.error = <<>>, !.errorDetails = <<>>, !.lastAttemptedUrl = <<>>,
              !.isLoading = FALSE]

\* handleFetch after its await, the result being a success
PrimarySuccess(i, resp) ==
    \E result \in {fetchDiscoveryDocument(primaryReqs[i].url, resp)} :
        /\ SendsRequest(primaryReqs[i].url)
        /\ result.success
        /\ Commit(FetchSucceeded(UI, result), jwksReqs, jwksDone)
        /\ primaryReqs' = RemoveAt(primaryReqs, i)
        /\ UNCHANGED probe

\* the set-calls of handleFetch after its await for a failed result, on the state s
FetchFailed(s, result) ==
    [s EXCEPT !.error = ErrorOf(result), !.errorDetails = DetailsOf(result),
              !.isLoading = FALSE]

\* PrimaryFailure without the final setIsLoading(false)
PrimaryFailureStaysLoading(i, resp) ==
    \E result \in {fetchDiscoveryDocument(primaryReqs[i].url, resp)} :
        /\ SendsRequest(primaryReqs[i].url)
        /\ ~result.success
        /\ Commit([UI EXCEPT
                     !.error = ErrorOf(result), !.errorDetails = DetailsOf(result)],
                  jwksReqs, jwksDone)
        /\ primaryReqs' = RemoveAt(primaryReqs, i)
        /\ UNCHANGED probe

\* handleFetch after its await, the result being a failure
PrimaryFailure(i, resp) ==
    \E result \in {fetchDiscoveryDocument(primaryReqs[i].url, resp)} :
        /\ SendsRequest(primaryReqs[i].url)
        /\ ~result.success
        /\ Commit(FetchFailed(UI, result), jwksReqs, jwksDone)
        /\ primaryReqs' = RemoveAt(primaryReqs, i)
        /\ UNCHANGED probe

\* handleFetch after its await, fetchDiscoveryDocument having returned before any request
PrimaryImmediate(i) ==
    \E result \in {ImmediateResult(primaryReqs[i].url)} :
        /\ ~SendsRequest(primaryReqs[i].url)
        /\ Commit(FetchFailed(UI, result), jwksReqs, jwksDone)
        /\ primaryReqs' = RemoveAt(primaryReqs, i)
        /\ UNCHANGED probe

\* Pasted storing the compact text
PastedCompact(s, data) ==
    [s EXCEPT !.pasteError = "", !.rawJson = JsonText(Finite(data), "compact"),
              !.keyEndpoints = getKeyEndpoints(data),
              !.capabilities = getCapabilities(data),
              !.otherFields = getOtherFields(data),
              !.error = <<>>, !.errorDetails = <<>>, !.lastAttemptedUrl = <<>>]

\* the set-calls of handlePasteJson for the parsed text data, on the state s
Pasted(s, data) ==
    [s EXCEPT !.pasteError = "", !.rawJson = JSONstringify2(data),
              !.keyEndpoints = getKeyEndpoints(data),
              !.capabilities = getCapabilities(data),
              !.otherFields = getOtherFields(data),
              !.error = <<>>, !.errorDetails = <<>>, !.lastAttemptedUrl = <<>>]

\* handlePasteJson on a text that parses
PasteValid(pastedJson) ==
    /\ ParsesAsJson(pastedJson)
    /\ \E data \in {JSONparse(pastedJson)} :
           Commit(Pasted(UI, data), jwksReqs, jwksDone)
    /\ UNCHANGED primaryReqs

\* PasteInvalid clearing the retrieval error as the parsing branch does
PasteInvalidClearsError(pastedJson) ==
    /\ ~ParsesAsJson(pastedJson)
    /\ Commit([UI EXCEPT !.pasteError = pastedJson.msg, !.error = <<>>, !.errorDetails = <<>>],
              jwksReqs, jwksDone)
    /\ UNCHANGED primaryReqs

\* handlePasteJson on a text that does not parse
PasteInvalid(pastedJson) ==
    /\ ~ParsesAsJson(pastedJson)
    /\ Commit([UI EXCEPT !.pasteError = pastedJson.msg], jwksReqs, jwksDone)
    /\ UNCHANGED primaryReqs

HandlePasteJson(pastedJson) ==
    /\ (PasteValid(pastedJson) \/ PasteInvalid(pastedJson))
    /\ UNCHANGED probe

\* a click on a view tab that is rendered
SetViewMode(v) ==
    /\ rawJson # NoText
    /\ v # viewMode
    /\ v = "others" => Len(otherFields) > 0
    /\ v = "jwks" => hasJwksUri(rawJson)
    /\ Commit([UI EXCEPT !.viewMode = v], jwksReqs, jwksDone)
    /\ UNCHANGED <<primaryReqs, probe>>

\* the error handleFetchJwks records for the answer resp, "" when it records the body
JwksFailure(resp) ==
    IF resp.kind = "throw" THEN "Failed to fetch JWKS: " \o Text(resp.message)
    ELSE IF ~Ok(resp)
    THEN "Failed to fetch JWKS: " \o ToString(resp.status) \o " " \o Text(resp.statusText)
    ELSE IF ~ParsesAsJson(resp.body) THEN "Failed to fetch JWKS: " \o resp.body.msg
    ELSE ""

\* the set-calls of handleFetchJwks after its await for the answer resp, on the state s
JwksAnswered(s, resp) ==
    IF JwksFailure(resp) # ""
    THEN [s EXCEPT !.jwksError = JwksFailure(resp), !.isLoadingJwks = FALSE]
    ELSE [s EXCEPT !.jwksData = JSONparse(resp.body), !.isLoadingJwks = FALSE]

\* JwksResponse whose failure paths leave isLoadingJwks set
JwksResponseStaysLoading(i, resp) ==
    LET failure == JwksFailure(resp)
        outcome == IF failure # "" THEN [kind |-> "failed"]
                   ELSE [kind |-> "ok", body |-> JSONparse(resp.body)]
    IN  /\ Commit(IF failure # ""
                  THEN [UI EXCEPT !.jwksError = failure]
                  ELSE [UI EXCEPT !.jwksData = JSONparse(resp.body), !.isLoadingJwks = FALSE],
                  RemoveAt(jwksReqs, i),
                  IF jwksReqs[i].cur THEN outcome ELSE jwksDone)
        /\ UNCHANGED <<primaryReqs, probe>>

\* handleFetchJwks after its await
JwksResponse(i, resp) ==
    LET failure == JwksFailure(resp)
        outcome == IF failure # "" THEN [kind |-> "failed"]
                   ELSE [kind |-> "ok", body |-> JSONparse(resp.body)]
    IN  /\ Commit(JwksAnswered(UI, resp),
                  RemoveAt(jwksReqs, i),
                  IF jwksReqs[i].cur THEN outcome ELSE jwksDone)
        /\ UNCHANGED <<primaryReqs, probe>>

NoAnswer == [kind |-> "none"]

\* the two tabs of DiscoveryWidget, each rendering one FetchDiscovery
Tabs == {"openid-configuration", "oauth-authorization-server"}

\* a FetchDiscovery as mounted: its state and its requests in flight
Mounted == [ui |-> InitialUI, primaryReqs |-> <<>>, jwksReqs |-> <<>>]

ProbeOff ==
    [doc |-> JNull, edits |-> 0, next |-> 1, url |-> <<>>, parts |-> 0,
     resp |-> NoAnswer, pastedBack |-> FALSE,
     key |-> <<>>, label |-> <<>>, labelled |-> FALSE,
     activeTab |-> "openid-configuration", inst |-> [tab \in Tabs |-> Mounted]]

Init ==
    /\ isLoading = InitialUI.isLoading
    /\ error = InitialUI.error
    /\ errorDetails = InitialUI.errorDetails
    /\ rawJson = InitialUI.rawJson
    /\ keyEndpoints = InitialUI.keyEndpoints
    /\ capabilities = InitialUI.capabilities
    /\ otherFields = InitialUI.otherFields
    /\ viewMode = InitialUI.viewMode
    /\ jwksData = InitialUI.jwksData
    /\ jwksError = InitialUI.jwksError
    /\ isLoadingJwks = InitialUI.isLoadingJwks
    /\ lastAttemptedUrl = InitialUI.lastAttemptedUrl
    /\ pasteError = InitialUI.pasteError
    /\ primaryReqs = <<>>
    /\ jwksReqs = <<>>
    /\ jwksDone = NoOutcome
    /\ loadFetches = 0
    /\ navFetches = 0
    /\ probe = ProbeOff

\* handleFetch is about to resume in a microtask, fetchDiscoveryDocument having
\* returned without a request: no event handler and no response runs before it
ResumesAtOnce == primaryReqs # <<>> /\ ~SendsRequest(primaryReqs[1].url)

Next ==
    \/ \E u \in UrlInputs : HandleFetchEmpty(u)
    \/ \E u \in UrlInputs : HandleFetchUrl(u)
    \/ \E i \in 1..Len(primaryReqs), resp \in PrimaryAnswers : PrimarySuccess(i, resp)
    \/ \E i \in 1..Len(primaryReqs), resp \in PrimaryAnswers : PrimaryFailure(i, resp)
    \/ \E i \in 1..Len(primaryReqs) : PrimaryImmediate(i)
    \/ \E t \in PasteTexts : ~ResumesAtOnce /\ HandlePasteJson(t)
    \/ \E v \in ViewModes : ~ResumesAtOnce /\ SetViewMode(v)
    \/ \E i \in 1..Len(jwksReqs), resp \in JwksAnswers : ~ResumesAtOnce /\ JwksResponse(i, resp)

Spec == Init /\ [][Next]_vars

----------------------------------------------------------------------------
(* Documents for the classifier and the validators: a base document with up  *)
(* to MaxEdits fields set, loaded through handlePasteJson                    *)

FullDoc ==
    JObj(<<Field("issuer", JStr(Issuer)),
           Field("authorization_endpoint", JStr(Issuer \o <<"/", "auth">>)),
           Field("jwks_uri", JStr(UrlA)),
           Field("response_types_supported", JArr(<<S("code")>>)),
           Field("subject_types_supported", JArr(<<S("public")>>)),
           Field("id_token_signing_alg_values_supported", JArr(<<S("RS256")>>)),
           Field("service_documentation", S("docs"))>>)

BaseDocs == {JObj(<<>>), FullDoc, JArr(<<S("code")>>)}

ProbeKeys ==
    <<"issuer", "jwks_uri", "token_endpoint", "response_types_supported",
      "scopes_supported", "custom">>

ProbeValues ==
    {JNull, JStr(<<>>), JStr(<<" ">>), JStr(<<" ">> \o UrlA), JStr(UrlHttp),
     JStr(<<"HTTPS:", "//", "a.example">>), JStr(NotAUrl),
     JNum(0), JArr(<<>>), JArr(<<S("code"), S("token")>>), JArr(<<JStr(<<>>)>>),
     JArr(<<JStr(<<>>), JNull>>), JObj(<<>>), JObj(<<Field("alg", S("RS256"))>>)}

\* obj[key] = v on an object: in place when the key exists, appended otherwise
Put(data, key, v) ==
    IF \E i \in 1..Len(data.o) : data.o[i].k = key
    THEN JObj([i \in 1..Len(data.o) |-> IF data.o[i].k = key THEN Field(key, v) ELSE data.o[i]])
    ELSE JObj(Append(data.o, Field(key, v)))

ProbeSet(i, v) ==
    /\ rawJson = NoText
    /\ probe.doc.t = "obj"
    /\ probe.edits < MaxEdits
    /\ i >= probe.next
    /\ probe' = [probe EXCEPT !.doc = Put(probe.doc, ProbeKeys[i], v),
                               !.edits = probe.edits + 1, !.next = i + 1]
    /\ UNCHANGED <<isLoading, error, errorDetails, rawJson, keyEndpoints, capabilities,
                   otherFields, viewMode, jwksData, jwksError, isLoadingJwks,
                   lastAttemptedUrl, pasteError, primaryReqs, jwksReqs, jwksDone,
                   loadFetches, navFetches>>

ProbeLoad ==
    /\ rawJson = NoText
    /\ HandlePasteJson(JsonText(probe.doc, "compact"))

InitDocs ==
    /\ isLoading = InitialUI.isLoading
    /\ error = InitialUI.error
    /\ errorDetails = InitialUI.errorDetails
    /\ rawJson = InitialUI.rawJson
    /\ keyEndpoints = InitialUI.keyEndpoints
    /\ capabilities = InitialUI.capabilities
    /\ otherFields = InitialUI.otherFields
    /\ viewMode = InitialUI.viewMode
    /\ jwksData = InitialUI.jwksData
    /\ jwksError = InitialUI.jwksError
    /\ isLoadingJwks = InitialUI.isLoadingJwks
    /\ lastAttemptedUrl = InitialUI.lastAttemptedUrl
    /\ pasteError = InitialUI.pasteError
    /\ primaryReqs = <<>>
    /\ jwksReqs = <<>>
    /\ jwksDone = NoOutcome
    /\ loadFetches = 0
    /\ navFetches = 0
    /\ probe \in {[ProbeOff EXCEPT !.doc = d] : d \in BaseDocs}

NextDocs ==
    \/ \E i \in 1..Len(ProbeKeys), v \in ProbeValues : ProbeSet(i, v)
    \/ ProbeLoad

SpecDocs == InitDocs /\ [][NextDocs]_vars

----------------------------------------------------------------------------
(* URL inputs: the text of the URL field typed part by part, then submitted   *)

\* what one step of typing appends
UrlParts ==
    {<<" ">>, Issuer, <<"/">>, <<"tenant">>, DEFAULT_OIDC_DISCOVERY_PATH, <<"?x=1">>}

\* the texts on which the token-level URL parser is exact: a scheme opens the
\* text, a word follows a separator
Typable(text, part) ==
    /\ Head(part) \in SchemeTokens => Trim(text) = <<>>
    /\ IsHostToken(Head(part)) =>
          (IF text = <<>> THEN TRUE ELSE text[Len(text)] \in Whitespace \cup Slashes)

\* nothing has been submitted yet
NotSubmitted == ~isLoading /\ error = <<>> /\ rawJson = NoText

\* onChange of the URL field
ProbeType(part) ==
    /\ NotSubmitted
    /\ probe.parts < MaxParts
    /\ Typable(probe.url, part)
    /\ probe' = [probe EXCEPT !.url = probe.url \o part, !.parts = probe.parts + 1]
    /\ UNCHANGED <<isLoading, error, errorDetails, rawJson, keyEndpoints, capabilities,
                   otherFields, viewMode, jwksData, jwksError, isLoadingJwks,
                   lastAttemptedUrl, pasteError, primaryReqs, jwksReqs, jwksDone,
                   loadFetches, navFetches>>

\* answers to the primary fetch in the URL specification
UrlAnswers ==
    {HttpResponse(200, StatusOk, JsonText(DocNoJwks, "compact")),
     HttpResponse(404, <<"Not Found">>, NotJson)}

NextUrl ==
    \/ \E part \in UrlParts : ProbeType(part)
    \/ NotSubmitted /\ HandleFetchEmpty(probe.url)
    \/ NotSubmitted /\ HandleFetchUrl(probe.url)
    \/ \E i \in 1..Len(primaryReqs), resp \in UrlAnswers : PrimarySuccess(i, resp)
    \/ \E i \in 1..Len(primaryReqs), resp \in UrlAnswers : PrimaryFailure(i, resp)
    \/ \E i \in 1..Len(primaryReqs) : PrimaryImmediate(i)

SpecUrl == Init /\ [][NextUrl]_vars

----------------------------------------------------------------------------
(* Retrieval: one server answer, chosen when the request arrives, given to     *)
(* every fetch of the discovery document                                      *)

\* a body of n characters that is not JSON
LongBody(n) == BadText("Unexpected token x in JSON at position 0", [i \in 1..n |-> "x"])

FetchStatuses == {200, 201, 299, 300, 404, 500}

FetchStatusTexts == {<<>>, StatusOk, <<"CORS", " rejected">>}

FetchBodies ==
    {JsonText(DocA, "compact"), JsonText(DocNoJwks, "indent2"), JsonText(JNull, "compact"),
     NoText, NotJson, LongBody(500), LongBody(501), Unreadable}

ThrownMessages ==
    {FailedToFetch, <<"Load failed">>,
     <<"Network", "Error when attempting to fetch resource.">>,
     <<"Cross-Origin Request Blocked: ", "CORS", " header missing">>,
     <<"The operation was aborted.">>, <<"cors">>}

FetchAnswers ==
    {HttpResponse(st, txt, b) : st \in FetchStatuses, txt \in FetchStatusTexts, b \in FetchBodies}
    \cup {Thrown(m) : m \in ThrownMessages}

\* the server decides its answer
ProbeAnswer(resp) ==
    /\ probe.resp = NoAnswer
    /\ primaryReqs # <<>>
    /\ probe' = [probe EXCEPT !.resp = resp]
    /\ UNCHANGED <<isLoading, error, errorDetails, rawJson, keyEndpoints, capabilities,
                   otherFields, viewMode, jwksData, jwksError, isLoadingJwks,
                   lastAttemptedUrl, pasteError, primaryReqs, jwksReqs, jwksDone,
                   loadFetches, navFetches>>

\* the rawJson of a fetched document pasted into the text area and parsed
PasteRawJson ==
    /\ rawJson # NoText
    /\ ~probe.pastedBack
    /\ PasteValid(rawJson)
    /\ probe' = [probe EXCEPT !.pastedBack = TRUE]

NextFetch ==
    \/ \E u \in {Issuer, NotAUrl} : ~isLoading /\ HandleFetchUrl(u)
    \/ \E resp \in FetchAnswers : ProbeAnswer(resp)
    \/ \E i \in 1..Len(primaryReqs) : probe.resp # NoAnswer /\ PrimarySuccess(i, probe.resp)
    \/ \E i \in 1..Len(primaryReqs) : probe.resp # NoAnswer /\ PrimaryFailure(i, probe.resp)
    \/ \E i \in 1..Len(primaryReqs) : PrimaryImmediate(i)
    \/ \E i \in 1..Len(jwksReqs), resp \in JwksAnswers : ~ResumesAtOnce /\ JwksResponse(i, resp)
    \/ PasteRawJson

SpecFetch == Init /\ [][NextFetch]_vars

\* every request that was issued is answered, and a handler whose await did not
\* wait for the network resumes; a key-set answer is held back only while a handler
\* is about to resume, so its fairness is strong
ServerAnswers == \E resp \in FetchAnswers : ProbeAnswer(resp)

PrimaryCompletes ==
    \E i \in 1..Len(primaryReqs) :
        /\ probe.resp # NoAnswer
        /\ PrimarySuccess(i, probe.resp) \/ PrimaryFailure(i, probe.resp)

PrimaryResumes == \E i \in 1..Len(primaryReqs) : PrimaryImmediate(i)

KeySetCompletes ==
    \E i \in 1..Len(jwksReqs), resp \in JwksAnswers : ~ResumesAtOnce /\ JwksResponse(i, resp)

SpecFetchFair ==
    /\ Init /\ [][NextFetch]_vars
    /\ WF_vars(ServerAnswers) /\ WF_vars(PrimaryCompletes) /\ WF_vars(PrimaryResumes)
    /\ SF_vars(KeySetCompletes)

----------------------------------------------------------------------------
(* Labels: a key is the sequence of its characters                          *)

LowerCase ==
    <<"a", "b", "c", "d", "e", "f", "g", "h", "i", "j", "k", "l", "m", "n",
      "o", "p", "q", "r", "s", "t", "u", "v", "w", "x", "y", "z">>

UpperCase ==
    <<"A", "B", "C", "D", "E", "F", "G", "H", "I", "J", "K", "L", "M", "N",
      "O", "P", "Q", "R", "S", "T", "U", "V", "W", "X", "Y", "Z">>

Digits == {"0", "1", "2", "3", "4", "5", "6", "7", "8", "9"}

\* String.prototype.toUpperCase on one character of a key
toUpperCase(c) ==
    IF c \in Range(LowerCase) THEN UpperCase[CHOOSE i \in 1..26 : LowerCase[i] = c] ELSE c

\* the class \w of a regular expression without the u flag
IsWordChar(c) == c \in Range(LowerCase) \cup Range(UpperCase) \cup Digits \cup {"_"}

\* .replace(/_/g, " ")
ReplaceUnderscores(s) == [i \in 1..Len(s) |-> IF s[i] = "_" THEN " " ELSE s[i]]

\* the pattern \b\w matches at i: a word character that no word character precedes
MatchesBoundary(s, i) ==
    IF ~IsWordChar(s[i]) THEN FALSE
    ELSE IF i = 1 THEN TRUE
    ELSE ~IsWordChar(s[i - 1])

\* .replace(/\b\w/g, (c) => c.toUpperCase())
UpperAtBoundaries(s) ==
    [i \in 1..Len(s) |-> IF MatchesBoundary(s, i) THEN toUpperCase(s[i]) ELSE s[i]]

\* the label with the two replacements in the other order
labelTitleFirst(key) == ReplaceUnderscores(UpperAtBoundaries(key))

\* key.replace(/_/g, " ").replace(/\b\w/g, (c) => c.toUpperCase())
label(key) == UpperAtBoundaries(ReplaceUnderscores(key))

\* the characters of the keys of the two fixed lists
KeySpelling ==
    [issuer |->
         <<"i", "s", "s", "u", "e", "r">>,
     authorization_endpoint |->
         <<"a", "u", "t", "h", "o", "r", "i", "z", "a", "t", "i", "o", "n", "_",
           "e", "n", "d", "p", "o", "i", "n", "t">>,
     token_endpoint |->
         <<"t", "o", "k", "e", "n", "_", "e", "n", "d", "p", "o", "i", "n", "t">>,
     userinfo_endpoint |->
         <<"u", "s", "e", "r", "i", "n", "f", "o", "_", "e", "n", "d", "p", "o",
           "i", "n", "t">>,
     jwks_uri |->
         <<"j", "w", "k", "s", "_", "u", "r", "i">>,
     registration_endpoint |->
         <<"r", "e", "g", "i", "s", "t", "r", "a", "t", "i", "o", "n", "_", "e",
           "n", "d", "p", "o", "i", "n", "t">>,
     revocation_endpoint |->
         <<"r", "e", "v", "o", "c", "a", "t", "i", "o", "n", "_", "e", "n", "d",
           "p", "o", "i", "n", "t">>,
     introspection_endpoint |->
         <<"i", "n", "t", "r", "o", "s", "p", "e", "c", "t", "i", "o", "n", "_",
           "e", "n", "d", "p", "o", "i", "n", "t">>,
     end_session_endpoint |->
         <<"e", "n", "d", "_", "s", "e", "s", "s", "i", "o", "n", "_", "e", "n",
           "d", "p", "o", "i", "n", "t">>,
     claims_supported |->
         <<"c", "l", "a", "i", "m", "s", "_", "s", "u", "p", "p", "o", "r", "t",
           "e", "d">>,
     scopes_supported |->
         <<"s", "c", "o", "p", "e", "s", "_", "s", "u", "p", "p", "o", "r", "t",
           "e", "d">>,
     code_challenge_methods_supported |->
         <<"c", "o", "d", "e", "_", "c", "h", "a", "l", "l", "e", "n", "g", "e",
           "_", "m", "e", "t", "h", "o", "d", "s", "_", "s", "u", "p", "p", "o",
           "r", "t", "e", "d">>,
     response_types_supported |->
         <<"r", "e", "s", "p", "o", "n", "s", "e", "_", "t", "y", "p", "e", "s",
           "_", "s", "u", "p", "p", "o", "r", "t", "e", "d">>,
     dpop_signing_alg_values_supported |->
         <<"d", "p", "o", "p", "_", "s", "i", "g", "n", "i", "n", "g", "_", "a",
           "l", "g", "_", "v", "a", "l", "u", "e", "s", "_", "s", "u", "p", "p",
           "o", "r", "t", "e", "d">>,
     grant_types_supported |->
         <<"g", "r", "a", "n", "t", "_", "t", "y", "p", "e", "s", "_", "s", "u",
           "p", "p", "o", "r", "t", "e", "d">>,
     id_token_signing_alg_values_supported |->
         <<"i", "d", "_", "t", "o", "k", "e", "n", "_", "s", "i", "g", "n", "i",
           "n", "g", "_", "a", "l", "g", "_", "v", "a", "l", "u", "e", "s", "_",
           "s", "u", "p", "p", "o", "r", "t", "e", "d">>,
     response_modes_supported |->
         <<"r", "e", "s", "p", "o", "n", "s", "e", "_", "m", "o", "d", "e", "s",
           "_", "s", "u", "p", "p", "o", "r", "t", "e", "d">>,
     subject_types_supported |->
         <<"s", "u", "b", "j", "e", "c", "t", "_", "t", "y", "p", "e", "s", "_",
           "s", "u", "p", "p", "o", "r", "t", "e", "d">>,
     token_endpoint_auth_methods_supported |->
         <<"t", "o", "k", "e", "n", "_", "e", "n", "d", "p", "o", "i", "n", "t",
           "_", "a", "u", "t", "h", "_", "m", "e", "t", "h", "o", "d", "s", "_",
           "s", "u", "p", "p", "o", "r", "t", "e", "d">>]

FixedKeys == EXCLUDED_KEYS

----------------------------------------------------------------------------
(* Labelling: a key is typed character by character, or taken from the fixed  *)
(* lists, and labelled                                                        *)

KeyChars == {"a", "b", "B", "2", "_", " ", "-"}

\* one more character of the key
ProbeKeyChar(c) ==
    /\ Len(probe.key) < MaxKeyLen
    /\ probe' = [probe EXCEPT !.key = Append(@, c), !.label = <<>>, !.labelled = FALSE]
    /\ UNCHANGED <<isLoading, error, errorDetails, rawJson, keyEndpoints, capabilities,
                   otherFields, viewMode, jwksData, jwksError, isLoadingJwks,
                   lastAttemptedUrl, pasteError, primaryReqs, jwksReqs, jwksDone,
                   loadFetches, navFetches>>

\* a key of the fixed lists
ProbeFixedKey(k) ==
    /\ probe.key = <<>>
    /\ probe' = [probe EXCEPT !.key = KeySpelling[k], !.label = <<>>, !.labelled = FALSE]
    /\ UNCHANGED <<isLoading, error, errorDetails, rawJson, keyEndpoints, capabilities,
                   otherFields, viewMode, jwksData, jwksError, isLoadingJwks,
                   lastAttemptedUrl, pasteError, primaryReqs, jwksReqs, jwksDone,
                   loadFetches, navFetches>>

\* the label of the key is derived for its entry
ProbeLabel ==
    /\ ~probe.labelled
    /\ probe' = [probe EXCEPT !.label = label(probe.key), !.labelled = TRUE]
    /\ UNCHANGED <<isLoading, error, errorDetails, rawJson, keyEndpoints, capabilities,
                   otherFields, viewMode, jwksData, jwksError, isLoadingJwks,
                   lastAttemptedUrl, pasteError, primaryReqs, jwksReqs, jwksDone,
                   loadFetches, navFetches>>

NextLabel ==
    \/ \E c \in KeyChars : ProbeKeyChar(c)
    \/ \E k \in FixedKeys : ProbeFixedKey(k)
    \/ ProbeLabel

SpecLabel == Init /\ [][NextLabel]_vars

----------------------------------------------------------------------------
(* The widget: two FetchDiscovery instances, both mounted, one of them shown  *)

\* the discoveryPath prop DiscoveryWidget gives the instance of a tab
discoveryPath(tab) ==
    IF tab = "openid-configuration" THEN DEFAULT_OIDC_DISCOVERY_PATH
    ELSE DEFAULT_OAUTH_DISCOVERY_PATH

WidgetAnswers == {HttpResponse(200, StatusOk, JsonText(DocA, "compact")), Thrown(FailedToFetch)}

WidgetPastes == {JsonText(DocNoJwks, "compact")}

WidgetKeySetAnswers ==
    {HttpResponse(200, StatusOk,
                  JsonText(JObj(<<Field("keys", JArr(<<JObj(<<Field("kty", S("RSA"))>>)>>))>>),
                           "compact")),
     Thrown(FailedToFetch)}

WidgetViews == {"endpoints", "raw-json", "jwks"}

\* a handler of the instance of a tab leaves the state h: its render and effects; the
\* setters it calls are those of its own instance
InstanceStep(tab, h, preqs, jreqs) ==
    /\ \E r \in {Settle(probe.inst[tab].ui, h, <<>>)} :
           probe' = [probe EXCEPT !.inst[tab] =
                        [ui |-> r.ui, primaryReqs |-> preqs,
                         jwksReqs |-> jreqs \o [i \in 1..Len(r.issued) |-> [uri |-> r.issued[i].uri]]]]
    /\ UNCHANGED <<isLoading, error, errorDetails, rawJson, keyEndpoints, capabilities,
                   otherFields, viewMode, jwksData, jwksError, isLoadingJwks,
                   lastAttemptedUrl, pasteError, primaryReqs, jwksReqs, jwksDone,
                   loadFetches, navFetches>>

\* handleFetch up to its await, in the instance that is shown
WidgetFetch(urlInput) ==
    \E tab \in {probe.activeTab} : \E me \in {probe.inst[tab]} :
        /\ ~me.ui.isLoading
        /\ Trim(urlInput) # <<>>
        /\ \E urlToFetch \in {ResolveUrl(urlInput, discoveryPath(tab))} :
               InstanceStep(tab, FetchStarted(me.ui, urlToFetch),
                            Append(me.primaryReqs, [url |-> urlToFetch]), me.jwksReqs)

\* handleFetch after its await, in either instance
WidgetFetchAnswer(tab, resp) ==
    \E me \in {probe.inst[tab]} :
        /\ me.primaryReqs # <<>>
        /\ \E result \in {fetchDiscoveryDocument(me.primaryReqs[1].url, resp)} :
               InstanceStep(tab,
                            IF result.success THEN FetchSucceeded(me.ui, result)
                            ELSE FetchFailed(me.ui, result),
                            Tail(me.primaryReqs), me.jwksReqs)

\* handlePasteJson on a text that parses, in the instance that is shown
WidgetPaste(pastedJson) ==
    \E tab \in {probe.activeTab} : \E me \in {probe.inst[tab]} :
        /\ ParsesAsJson(pastedJson)
        /\ InstanceStep(tab, Pasted(me.ui, JSONparse(pastedJson)), me.primaryReqs, me.jwksReqs)

\* a click on a view tab of the instance that is shown
WidgetSetViewMode(v) ==
    \E tab \in {probe.activeTab} : \E me \in {probe.inst[tab]} :
        /\ me.ui.rawJson # NoText
        /\ v # me.ui.viewMode
        /\ v = "jwks" => hasJwksUri(me.ui.rawJson)
        /\ InstanceStep(tab, [me.ui EXCEPT !.viewMode = v], me.primaryReqs, me.jwksReqs)

\* handleFetchJwks after its await, in either instance
WidgetKeySetAnswer(tab, i, resp) ==
    \E me \in {probe.inst[tab]} :
        /\ i \in 1..Len(me.jwksReqs)
        /\ InstanceStep(tab, JwksAnswered(me.ui, resp), me.primaryReqs, RemoveAt(me.jwksReqs, i))

\* setActiveTab unmounting the instance that is hidden
SetActiveTabUnmounting(tab) ==
    /\ tab # probe.activeTab
    /\ probe' = [probe EXCEPT !.activeTab = tab, !.inst[probe.activeTab] = Mounted]
    /\ UNCHANGED <<isLoading, error, errorDetails, rawJson, keyEndpoints, capabilities,
                   otherFields, viewMode, jwksData, jwksError, isLoadingJwks,
                   lastAttemptedUrl, pasteError, primaryReqs, jwksReqs, jwksDone,
                   loadFetches, navFetches>>

\* setActiveTab: the instance that is hidden stays mounted (display: none)
SetActiveTab(tab) ==
    /\ tab # probe.activeTab
    /\ probe' = [probe EXCEPT !.activeTab = tab]
    /\ UNCHANGED <<isLoading, error, errorDetails, rawJson, keyEndpoints, capabilities,
                   otherFields, viewMode, jwksData, jwksError, isLoadingJwks,
                   lastAttemptedUrl, pasteError, primaryReqs, jwksReqs, jwksDone,
                   loadFetches, navFetches>>

NextWidget ==
    \/ WidgetFetch(Issuer)
    \/ \E tab \in Tabs, resp \in WidgetAnswers : WidgetFetchAnswer(tab, resp)
    \/ \E t \in WidgetPastes : WidgetPaste(t)
    \/ \E v \in WidgetViews : WidgetSetViewMode(v)
    \/ \E tab \in Tabs, i \in 1..2, resp \in WidgetKeySetAnswers : WidgetKeySetAnswer(tab, i, resp)
    \/ \E tab \in Tabs : SetActiveTab(tab)

SpecWidget == Init /\ [][NextWidget]_vars

----------------------------------------------------------------------------
(* Structure of the in-flight requests *)

TypeOK ==
    /\ Len(primaryReqs) <= 1
    /\ Len(jwksReqs) <= 1
    /\ isLoading <=> primaryReqs # <<>>
    /\ isLoadingJwks <=> jwksReqs # <<>>

----------------------------------------------------------------------------
(* Properties *)

\* the key-set validation of the current render
KeySetStatus == jwksContentValidation(hasJwksUri(rawJson), isLoadingJwks, jwksError, jwksData)

\* the endpoint validation of the current render
EndpointStatus == endpointValidation(discoveryObj(rawJson), KeySetStatus)

\* a document is loaded and is an object for the validators
ObjectLoaded == rawJson # NoText /\ discoveryObj(rawJson) # JNull

\* the bare check as the specification words it: non-blank string, parses as URL, scheme https
IsNonBlankText(v) == v.t = "str" /\ \E i \in 1..Len(v.s) : v.s[i] \notin Whitespace
BarePass(v) == IsNonBlankText(v) /\ ParseURL(v.s).ok /\ ParseURL(v.s).protocol = "https:"
BareOutcome(v) ==
    IF ~IsNonBlankText(v) THEN Validation("error", "Missing")
    ELSE IF ~ParseURL(v.s).ok THEN Validation("error", "Invalid URL")
    ELSE IF ParseURL(v.s).protocol # "https:" THEN Validation("error", "Must be HTTPS")
    ELSE Validation("pass", "HTTPS absolute URL")

\* C1: while a document with a non-blank string jwks_uri is loaded and no key-set
\* fetch attempt has completed for it, the key-set status is pending
C1_PendingUntilAttemptCompletes ==
    (hasJwksUri(rawJson) /\ jwksDone = NoOutcome) => KeySetStatus.status = "pending"

\* C2: for one loaded document the key-set fetch is issued at most once by the
\* document-load effect and at most once by navigation to the key-set view, and
\* after a failed attempt no further request is in flight for that document
C2_AtMostOncePerTrigger ==
    /\ loadFetches <= 1
    /\ navFetches <= 1
    /\ (jwksDone.kind = "failed" => \A i \in 1..Len(jwksReqs) : ~jwksReqs[i].cur)

\* C3: once a key-set fetch for the current document has completed, having failed
\* or having returned a body that is not a JSON object, the key-set status is error
C3_FailedOrNonObjectIsError ==
    (/\ hasJwksUri(rawJson)
     /\ jwksDone.kind # "none"
     /\ (jwksDone.kind = "failed" \/ jwksDone.body.t # "obj"))
    => KeySetStatus.status = "error"

\* C4: the jwks_uri entry of the endpoint validation is the key-set validation
\* verbatim when jwks_uri passes the bare check, and the bare failure otherwise
C4_FoldingRule ==
    ObjectLoaded =>
        LET v == Get(discoveryObj(rawJson), "jwks_uri")
        IN  IF BarePass(v)
            THEN /\ EndpointStatus["jwks_uri"] = KeySetStatus
                 /\ KeySetStatus.status \in {"pass", "pending", "error"}
            ELSE /\ EndpointStatus["jwks_uri"] = BareOutcome(v)
                 /\ BareOutcome(v).message \in {"Missing", "Invalid URL", "Must be HTTPS"}

\* C4 witness: a jwks_uri passing the bare check carries the key-set result
C4_Witness ==
    /\ ObjectLoaded
    /\ BarePass(Get(discoveryObj(rawJson), "jwks_uri"))
    /\ EndpointStatus["jwks_uri"] = Validation("pass", "JWKS keys[]: 1")

\* C5: after a successful key-set fetch for the current document whose body is a
\* JSON object, the status is pass "JWKS keys[]: <n>" iff keys is an array, and
\* error "JWKS missing keys[]" otherwise
C5_KeysArrayDecides ==
    (hasJwksUri(rawJson) /\ jwksDone.kind = "ok" /\ jwksDone.body.t = "obj") =>
        LET keys == Get(jwksDone.body, "keys")
        IN  IF keys.t = "arr"
            THEN KeySetStatus = Validation("pass", "JWKS keys[]: " \o ToString(Len(keys.a)))
            ELSE KeySetStatus = Validation("error", "JWKS missing keys[]")

\* C5 witness: an empty keys array has been fetched and passes
C5_Witness ==
    /\ hasJwksUri(rawJson)
    /\ jwksDone.kind = "ok"
    /\ jwksDone.body = JObj(<<Field("keys", JArr(<<>>))>>)
    /\ KeySetStatus = Validation("pass", "JWKS keys[]: 0")

\* C6: once a document whose jwks_uri passes the bare check is loaded and every
\* issued request has completed, the jwks_uri status is pass or error
C6_ResolvedOnceRequestsComplete ==
    (/\ ObjectLoaded
     /\ BarePass(Get(discoveryObj(rawJson), "jwks_uri"))
     /\ primaryReqs = <<>>
     /\ jwksReqs = <<>>)
    => EndpointStatus["jwks_uri"].status \in {"pass", "error"}

\* the value counts as non-empty: defined, non-null and non-blank after string conversion
NonEmptyValue(v) ==
    CASE v.t \in {"undefined", "null"} -> FALSE
      [] v.t = "str" -> IsNonBlankText(v)
      [] v.t = "arr" -> Len(v.a) >= 2 \/ (Len(v.a) = 1 /\ Trim(ElementString(v.a[1])) # <<>>)
      [] OTHER -> TRUE

GroupKeys(group) == {group[i].key : i \in 1..Len(group)}

\* the number of groups the key appears in, counting repetitions
Memberships(key) ==
    Cardinality({i \in 1..Len(keyEndpoints) : keyEndpoints[i].key = key})
    + Cardinality({i \in 1..Len(capabilities) : capabilities[i].key = key})
    + Cardinality({i \in 1..Len(otherFields) : otherFields[i].key = key})

TopLevelKeys(doc) == Range(ObjectKeys(doc))

\* C7 as stated: every top-level key with a non-empty value is in exactly one group
C7_EveryKeyInExactlyOneGroup ==
    rawJson # NoText =>
        \A key \in TopLevelKeys(probe.doc) :
            NonEmptyValue(Get(probe.doc, key)) => Memberships(key) = 1

\* C7 amended: every top-level key with a non-empty value is in exactly one group,
\* except that a key of the endpoint list whose value is not a string is in none
C7_ExactlyOneGroupUnlessNonStringEndpoint ==
    rawJson # NoText =>
        \A key \in TopLevelKeys(probe.doc) :
            NonEmptyValue(Get(probe.doc, key)) =>
                IF key \in Range(KEY_ENDPOINT_KEYS) /\ Get(probe.doc, key).t # "str"
                THEN Memberships(key) = 0
                ELSE Memberships(key) = 1

\* C7 witness: a loaded document with an endpoint key of non-string value and a grouped key
C7_Witness ==
    /\ rawJson # NoText
    /\ \E key \in TopLevelKeys(probe.doc) :
          /\ key \in Range(KEY_ENDPOINT_KEYS)
          /\ Get(probe.doc, key).t = "arr"
          /\ NonEmptyValue(Get(probe.doc, key))
    /\ otherFields # <<>>

\* C8: the keys of the other group are the top-level keys outside both fixed lists
\* with a non-empty value, and no key is in more than one group
C8_OtherIsComplement ==
    rawJson # NoText =>
        /\ GroupKeys(otherFields) =
              {key \in TopLevelKeys(probe.doc) :
                  /\ key \notin Range(KEY_ENDPOINT_KEYS)
                  /\ key \notin Range(CAPABILITY_KEYS)
                  /\ NonEmptyValue(Get(probe.doc, key))}
        /\ \A key \in GroupKeys(keyEndpoints) \cup GroupKeys(capabilities) \cup GroupKeys(otherFields) :
              Memberships(key) = 1

\* C8 witness: a loaded document with all three groups populated
C8_Witness ==
    /\ rawJson # NoText
    /\ keyEndpoints # <<>>
    /\ capabilities # <<>>
    /\ otherFields # <<>>
    /\ \E key \in TopLevelKeys(probe.doc) :
          key \notin EXCLUDED_KEYS /\ ~NonEmptyValue(Get(probe.doc, key))

\* C9 as stated: each of the nine endpoint keys maps to Missing, Invalid URL,
\* Must be HTTPS or pass "HTTPS absolute URL", in that precedence
C9_EndpointOutcomes ==
    ObjectLoaded =>
        \A key \in Range(KEY_ENDPOINT_KEYS) :
            EndpointStatus[key] = BareOutcome(Get(discoveryObj(rawJson), key))

\* C9 amended: the same for the eight keys other than jwks_uri; jwks_uri has the
\* three failures in the same precedence and otherwise the key-set validation
C9_EndpointOutcomesExceptJwksPass ==
    ObjectLoaded =>
        /\ DOMAIN EndpointStatus = Range(KEY_ENDPOINT_KEYS)
        /\ \A key \in Range(KEY_ENDPOINT_KEYS) :
              LET v == Get(discoveryObj(rawJson), key)
              IN  IF key = "jwks_uri" /\ BarePass(v)
                  THEN EndpointStatus[key] = KeySetStatus
                  ELSE EndpointStatus[key] = BareOutcome(v)
        /\ (probe.doc = JObj(<<>>) =>
                \A key \in Range(KEY_ENDPOINT_KEYS) :
                    EndpointStatus[key] = Validation("error", "Missing"))

\* C9 witness: a loaded document with a passing, a non-https and an unparsable endpoint
C9_Witness ==
    /\ ObjectLoaded
    /\ EndpointStatus["issuer"] = Validation("pass", "HTTPS absolute URL")
    /\ EndpointStatus["token_endpoint"] = Validation("error", "Must be HTTPS")
    /\ EndpointStatus["jwks_uri"] = Validation("error", "Invalid URL")

RequiredStrings == <<"issuer", "authorization_endpoint", "jwks_uri">>
RequiredArrays ==
    <<"response_types_supported", "subject_types_supported",
      "id_token_signing_alg_values_supported">>

\* the required key fails its check, as the specification words it
FailsRequirement(doc, key) ==
    IF key \in Range(RequiredStrings)
    THEN ~IsNonBlankText(Get(doc, key))
    ELSE ~(Get(doc, key).t = "arr" /\ Get(doc, key).a # <<>>)

IsOrderedSelection(sel, order) ==
    /\ Range(sel) \subseteq Range(order)
    /\ \A i, j \in 1..Len(sel) :
          i < j => \E a, b \in 1..Len(order) : a < b /\ order[a] = sel[i] /\ order[b] = sel[j]

\* C10: the required-fields check returns exactly the required keys that fail
\* their check, in declaration order
C10_RequiredMissing ==
    ObjectLoaded =>
        LET missing == requiredMissing(discoveryObj(rawJson))
            order == RequiredStrings \o RequiredArrays
        IN  /\ Range(missing) = {key \in Range(order) : FailsRequirement(probe.doc, key)}
            /\ IsOrderedSelection(missing, order)
            /\ (probe.doc = JObj(<<>>) => missing = order)
            /\ (probe.doc = FullDoc => missing = <<>>)

\* C10 witness: a loaded document missing a required string and a required array,
\* the others present
C10_Witness ==
    /\ ObjectLoaded
    /\ requiredMissing(discoveryObj(rawJson)) = <<"jwks_uri", "response_types_supported">>

\* the capability validation of the current render
CapabilityStatus == capabilityValidation(discoveryObj(rawJson))

\* C11: each of the ten capability keys maps to error "Missing" when the field is
\* absent or null, to error "Expected non-empty array" when it is present but not a
\* non-empty array, and to pass "<n> items" with n the array length otherwise
C11_CapabilityOutcomes ==
    ObjectLoaded =>
        /\ DOMAIN CapabilityStatus = Range(CAPABILITY_KEYS)
        /\ Cardinality(DOMAIN CapabilityStatus) = 10
        /\ \A key \in DOMAIN CapabilityStatus :
              LET v == Get(probe.doc, key)
              IN  IF v.t \in {"undefined", "null"}
                  THEN CapabilityStatus[key] = Validation("error", "Missing")
                  ELSE IF ~(v.t = "arr" /\ v.a # <<>>)
                  THEN CapabilityStatus[key] = Validation("error", "Expected non-empty array")
                  ELSE CapabilityStatus[key] = Validation("pass", ToString(Len(v.a)) \o " items")

\* C11 witness: a loaded document with an empty capability array and one of two items
C11_Witness ==
    /\ ObjectLoaded
    /\ Get(probe.doc, "scopes_supported") = JArr(<<>>)
    /\ CapabilityStatus["scopes_supported"] = Validation("error", "Expected non-empty array")
    /\ CapabilityStatus["response_types_supported"] = Validation("pass", "2 items")

\* the input of handleFetch after trim, and its parse
TypedUrl == Trim(probe.url)
Authority(u) == <<ParseURL(u).protocol, "//", ParseURL(u).host>>
EmptyPath(u) == ParseURL(u).pathname \in {<<>>, <<"/">>}

\* handleFetch has resolved the typed text and awaits the result
Resolving == isLoading /\ primaryReqs # <<>>

C13_FallbackAppendsToRawInput ==
    (/\ Resolving
     /\ TypedUrl # <<>>
     /\ ~Includes(TypedUrl, DEFAULT_OIDC_DISCOVERY_PATH)
     /\ ~ParseURL(TypedUrl).ok)
    => /\ primaryReqs[1].url = TypedUrl \o DEFAULT_OIDC_DISCOVERY_PATH
       /\ primaryReqs[1].url # <<>>

\* the submitted text has been answered with an error
Rejected == ~isLoading /\ error # <<>>

EmptyInputErrors ==
    {<<"Please enter a base URL (e.g. https://auth.example.com) or a full discovery URL.">>,
     <<"Please enter a discovery URL">>}

\* C14: a blank input yields the empty-input error and no request; a non-empty
\* input that fails URL construction yields "Invalid URL format" and no request,
\* never an empty-input error
C14_EmptyAndMalformedDistinct ==
    /\ (TypedUrl = <<>> /\ Rejected) => error \in EmptyInputErrors
    /\ TypedUrl = <<>> => primaryReqs = <<>>
    /\ (TypedUrl # <<>> /\ ~ParseURL(TypedUrl).ok) =>
          /\ \A i \in 1..Len(primaryReqs) : ~SendsRequest(primaryReqs[i].url)
          /\ Rejected => (error = <<"Invalid URL format">> /\ error \notin EmptyInputErrors)

\* the primary fetch has completed with the server's answer
Answered ==
    /\ probe.resp # NoAnswer
    /\ ~isLoading /\ primaryReqs = <<>>
    /\ error # <<"Invalid URL format">> /\ error # <<"Please enter a discovery URL">>

\* an HTTP exchange has completed: status line and body were received
Exchanged == Answered /\ probe.resp.kind = "response" /\ probe.resp.body.fmt # "unreadable"

\* the retrieval result for the server's answer
AnswerResult == fetchDiscoveryDocument(Issuer \o DEFAULT_OIDC_DISCOVERY_PATH, probe.resp)

\* the first 500 characters of the body of the answer
First500 ==
    LET text == BodyText(probe.resp.body)
    IN  [i \in 1..(IF Len(text) <= 500 THEN Len(text) ELSE 500) |-> text[i]]

IsTwoXX(status) == status \in 200..299

\* C15: a completed HTTP exchange gives exactly one of: success (2xx, body parses;
\* data and rawJson, no error), HTTP error (non-2xx; "HTTP <status> <statusText>",
\* the status code, at most the first 500 characters of the body), JSON parse error
\* (2xx, body not JSON; the first 500 characters of the body, no status code)
C15_ExchangeOutcomes ==
    Exchanged =>
        LET resp == probe.resp
            r == AnswerResult
        IN  IF IsTwoXX(resp.status) /\ ParsesAsJson(resp.body)
            THEN /\ r.success
                 /\ DOMAIN r = {"success", "data", "rawJson"}
                 /\ r.data = JSONparse(resp.body)
                 /\ rawJson = r.rawJson
                 /\ error = <<>> /\ errorDetails = <<>>
            ELSE IF ~IsTwoXX(resp.status)
            THEN /\ ~r.success
                 /\ {"data", "rawJson"} \cap DOMAIN r = {}
                 /\ r.error = <<"HTTP ", ToString(resp.status), " ">> \o resp.statusText
                 /\ r.statusCode = resp.status
                 /\ DetailsOf(r) = First500
                 /\ error = r.error /\ errorDetails = First500 /\ rawJson = NoText
            ELSE /\ ~r.success
                 /\ {"data", "rawJson", "statusCode"} \cap DOMAIN r = {}
                 /\ r.error = <<"JSON parse error: Response is not valid JSON">>
                 /\ r.errorDetails = JStr(First500)
                 /\ error = r.error /\ errorDetails = First500 /\ rawJson = NoText

\* C15 witness: a non-2xx answer with a body of 501 characters has been reported
\* with the first 500 of them
C15_Witness ==
    /\ Exchanged
    /\ probe.resp.status = 404
    /\ Len(BodyText(probe.resp.body)) = 501
    /\ Len(errorDetails) = 500
    /\ error = <<"HTTP ", "404", " ", "OK">>

\* the failure message contains an indicator of cross-origin blocking or unreachability
HasIndicator(message) ==
    \E i \in 1..Len(message) :
        message[i] \in {"cors", "CORS", "Cors", "network", "Network",
                        "failed to fetch", "Failed to fetch"}

\* the condition under which the remediation block is rendered
ShowsCorsGuidance == lastAttemptedUrl # <<>> /\ IncludesWord(error, "cors")

\* C16: a transport failure is the network/CORS error with the fixed detail iff its
\* message contains an indicator, the generic network error with the message and
\* no detail otherwise; the remediation guidance is shown for network/CORS
\* failures and for no other error kind
C16_CorsClassification ==
    Answered =>
        /\ probe.resp.kind = "throw" =>
              IF HasIndicator(probe.resp.message)
              THEN /\ error = <<"Network", "/", "CORS", " error: Cannot reach the server">>
                   /\ errorDetails = CorsDetails
              ELSE /\ error = <<"Network", " error: ">> \o probe.resp.message
                   /\ errorDetails = <<>>
        /\ ShowsCorsGuidance <=> (probe.resp.kind = "throw" /\ HasIndicator(probe.resp.message))

\* every answer to a request in flight is taken by a handler step
EveryAnswerHandled ==
    /\ \A i \in 1..Len(primaryReqs) : \A resp \in FetchAnswers :
          ENABLED (PrimarySuccess(i, resp) \/ PrimaryFailure(i, resp) \/ PrimaryImmediate(i))
    /\ \A i \in 1..Len(jwksReqs) : \A resp \in JwksAnswers : ENABLED JwksResponse(i, resp)

\* the user can issue a new request
CanFetchAgain == ENABLED HandleFetchUrl(Issuer)

\* a step that completes a primary fetch without loading a document
PrimaryFails == Len(primaryReqs') < Len(primaryReqs) /\ rawJson' = NoText

\* a step that completes a key-set fetch of the loaded document with a failure
KeySetFails == Len(jwksReqs') < Len(jwksReqs) /\ jwksDone' # jwksDone /\ jwksDone'.kind = "failed"

\* C17: every failure of the primary fetch or of the key-set fetch becomes an error
\* value of the component, which is then not loading and accepts a new request
C17_FailuresAreCaptured ==
    /\ [](EveryAnswerHandled /\ (~isLoading => CanFetchAgain))
    /\ [][/\ PrimaryFails => (error' # <<>> /\ ~isLoading')
          /\ KeySetFails => (jwksError' # "" /\ ~isLoadingJwks' /\ ~isLoading' = ~isLoading)]_vars

\* C17 witness: a primary fetch and a key-set fetch have failed, nothing is loading
C17_Witness ==
    /\ ~isLoading /\ ~isLoadingJwks
    /\ error # <<>>
    /\ jwksError # ""
    /\ primaryReqs = <<>> /\ jwksReqs = <<>>

\* a step of handlePasteJson that loads another document (no primary fetch is in
\* flight, so the step is not the completion of one)
PasteLoads == ~isLoading /\ rawJson' # rawJson /\ rawJson' # NoText

\* a step of handlePasteJson on a text that does not parse
PasteRejected == pasteError' # pasteError /\ pasteError' # ""

Shown ==
    [rawJson |-> rawJson, keyEndpoints |-> keyEndpoints, capabilities |-> capabilities,
     otherFields |-> otherFields,
     requiredMissing |-> requiredMissing(discoveryObj(rawJson)),
     endpointValidation |-> EndpointStatus,
     capabilityValidation |-> CapabilityStatus]

\* the step that pastes the displayed rawJson back through handlePasteJson
PastesBack == probe'.pastedBack /\ ~probe.pastedBack

TitleBy(key, starts(_, _)) ==
    [i \in 1..Len(key) |->
        IF key[i] = "_" THEN " "
        ELSE IF starts(key, i) THEN toUpperCase(key[i]) ELSE key[i]]

Blank(c) == c \in {" ", "_"}

Letter(c) == c \in Range(LowerCase) \cup Range(UpperCase)

\* i is the first character of a whitespace-delimited token
StartsToken(key, i) ==
    /\ ~Blank(key[i])
    /\ IF i = 1 THEN TRUE ELSE Blank(key[i - 1])

\* i is the first letter of a whitespace-delimited token
FirstLetterOfToken(key, i) ==
    /\ Letter(key[i])
    /\ \A j \in 1..(i - 1) :
           (\A m \in j..i : ~Blank(key[m])) => ~Letter(key[j])

\* i is a letter or digit that no letter or digit precedes
StartsWord(key, i) ==
    /\ (Letter(key[i]) \/ key[i] \in Digits)
    /\ IF i = 1 THEN TRUE ELSE ~(Letter(key[i - 1]) \/ key[i - 1] \in Digits)

\* the two examples and the distinctness of the labels of the nineteen fixed keys
LabelExamples ==
    /\ probe.key = KeySpelling.token_endpoint =>
           probe.label = <<"T", "o", "k", "e", "n", " ", "E", "n", "d", "p", "o", "i", "n", "t">>
    /\ probe.key = KeySpelling.dpop_signing_alg_values_supported =>
           probe.label = <<"D", "p", "o", "p", " ", "S", "i", "g", "n", "i", "n", "g", " ", "A", "l", "g", " ", "V", "a", "l", "u", "e", "s", " ", "S", "u", "p", "p", "o", "r", "t", "e", "d">>
    /\ Cardinality(FixedKeys) = 19
    /\ \A k1 \in FixedKeys :
           probe.key = KeySpelling[k1] =>
               \A k2 \in FixedKeys \ {k1} : label(KeySpelling[k2]) # probe.label

\* C20: the label of a key is the key with every underscore replaced by a space and
\* exactly the first letter of every whitespace-delimited token upper-cased; it is a
\* function of the key alone, gives the two examples and distinct labels for the
\* nineteen fixed keys
C20_LabelByTokens ==
    probe.labelled =>
        /\ \/ probe.label = TitleBy(probe.key, StartsToken)
           \/ probe.label = TitleBy(probe.key, FirstLetterOfToken)
        /\ LabelExamples

\* C20 (amended): the label of a key is the key with every underscore replaced by a
\* space and every letter that follows the start of the key or a character that is
\* neither a letter nor a digit upper-cased; it is a function of the key alone, gives
\* the two examples and distinct labels for the nineteen fixed keys
C20_LabelByWords ==
    probe.labelled =>
        /\ probe.label = TitleBy(probe.key, StartsWord)
        /\ LabelExamples

\* a key with a hyphen and an underscore has been labelled
C20_Witness ==
    /\ probe.labelled
    /\ probe.key = <<"a", "-", "b">>
    /\ probe.label = <<"A", "-", "B">>

\* the flattening rule as stated: array joined with ", ", string as-is, object as
\* JSON with 2-space indent, other scalar stringified
Flattened(val) ==
    CASE val.t = "arr" -> ArrayJoin(val)
      [] val.t = "str" -> val.s
      [] val.t = "obj" -> Stringify(val, TRUE, 0)
      [] OTHER -> StringOf(val)

\* the fields of a group are those of the keys whose value is present and flattens
\* to a non-blank string, each with its flattened value
FlattenedGroup(group, keys) ==
    /\ \A i \in 1..Len(group) : group[i].value = Flattened(Get(probe.doc, group[i].key))
    /\ GroupKeys(group) =
          {key \in keys : /\ Get(probe.doc, key).t \notin {"undefined", "null"}
                          /\ Trim(Flattened(Get(probe.doc, key))) # <<>>}

\* C21: the capabilities group and the other group flatten a value by the same rule
\* (array joined with ", ", string as-is, object as JSON with 2-space indent, other
\* scalar stringified) and omit a field whose flattened value is empty or blank
C21_SameFlattening ==
    (rawJson # NoText /\ probe.doc.t = "obj") =>
        /\ FlattenedGroup(capabilities, Range(CAPABILITY_KEYS))
        /\ FlattenedGroup(otherFields, TopLevelKeys(probe.doc) \ EXCLUDED_KEYS)

\* a URL can be submitted: the Fetch button or the Enter key starts handleFetch
CanSubmit == \E u \in UrlInputs : ENABLED (HandleFetchUrl(u) \/ HandleFetchEmpty(u))

\* a request of the primary fetch is on the network
RequestOnNetwork == primaryReqs # <<>> /\ SendsRequest(primaryReqs[1].url)

C25_AtMostOnePrimaryFetch ==
    /\ [](Len(primaryReqs) <= 1 /\ (isLoading <=> Len(primaryReqs) = 1))
    /\ [][Len(primaryReqs') > Len(primaryReqs) =>
             (~isLoading /\ primaryReqs = <<>> /\ isLoading')]_vars

\* a fetch is outstanding and a document pasted in the meantime is displayed
C25_Witness ==
    /\ isLoading
    /\ Len(primaryReqs) = 1
    /\ rawJson # NoText

\* a key-set response arrives whose request was issued for a document that has been
\* replaced since
StaleKeySetResponse ==
    \E i \in 1..Len(jwksReqs) :
        /\ rawJson # NoText
        /\ ~jwksReqs[i].cur
        /\ Len(jwksReqs') = Len(jwksReqs) - 1
        /\ \A j \in 1..Len(jwksReqs') : jwksReqs'[j] = RemoveAt(jwksReqs, i)[j]

\* the key set of the loaded document is being fetched or an attempt for it has ended
OwnKeySetFetched == jwksDone # NoOutcome \/ \E i \in 1..Len(jwksReqs) : jwksReqs[i].cur

\* C24: a key-set response that arrives after another document has been loaded is
\* never recorded as the key-set result of the loaded document, and it never keeps the
\* key-set fetch of the loaded document from being issued
C24_StaleKeySetResponseIgnored ==
    [][StaleKeySetResponse =>
          /\ jwksData' = jwksData
          /\ jwksError' = jwksError
          /\ (hasJwksUri(rawJson) /\ OwnKeySetFetched) => OwnKeySetFetched']_vars

\* C26: a key-set request is sent only to a jwks_uri that passes the bare endpoint
\* check (an absolute URL with scheme https), never to one validated as "Invalid URL"
\* or "Must be HTTPS"
C26_KeySetFetchOnlyForHttps ==
    \A i \in 1..Len(jwksReqs) :
        bareEndpointCheck(JStr(jwksReqs[i].uri)) = Validation("pass", "HTTPS absolute URL")

\* the document the groups are to be derived from: null when none is loaded
LoadedDocument == IF rawJson = NoText THEN JNull ELSE JSONparse(rawJson)

\* C27: in every state the three displayed groups are the classification of the
\* loaded document, and are empty when no document is loaded
C27_GroupsOfLoadedDocument ==
    /\ keyEndpoints = getKeyEndpoints(LoadedDocument)
    /\ capabilities = getCapabilities(LoadedDocument)
    /\ otherFields = getOtherFields(LoadedDocument)

\* the view v can be selected for the displayed document
ViewAvailable(v) ==
    CASE v = "jwks" -> hasJwksUri(rawJson)
      [] v = "others" -> Len(otherFields) > 0
      [] OTHER -> TRUE

\* the step is a click on a view tab: only the view (and what its key-set fetch
\* sets) changes
ViewClick == rawJson' = rawJson /\ otherFields' = otherFields /\ ViewAvailable(viewMode')

\* C28: once the effects have run the view is jwks only with a non-blank string
\* jwks_uri loaded and others only with a non-empty other group; a change of the
\* document that makes the selected view unavailable falls back to endpoints, and
\* endpoints, capabilities and raw-json are never changed by loading a document
C28_ViewResets ==
    /\ [](ViewAvailable(viewMode))
    /\ [][(viewMode' # viewMode /\ ~ViewClick) =>
             /\ viewMode' = "endpoints"
             /\ viewMode \in {"jwks", "others"}
             /\ ~(CASE viewMode = "jwks" -> hasJwksUri(rawJson')
                     [] OTHER -> Len(otherFields') > 0)]_vars

\* the key-set view was opened for a document with a jwks_uri, and a document
\* without one has been loaded since: the view is endpoints again
C28_Witness ==
    /\ viewMode = "endpoints"
    /\ rawJson # NoText
    /\ ~hasJwksUri(rawJson)
    /\ \E i \in 1..Len(jwksReqs) : jwksReqs[i].by = "view" /\ ~jwksReqs[i].cur

\* C29: a paste of a text that is not JSON changes only the paste error: document,
\* groups, retrieval error and details, key-set data and error, loading flags, view
\* and the requests in flight stay as they are
C29_InvalidPasteFrame ==
    [][PasteRejected =>
          /\ pasteError' = NotJson.msg
          /\ UNCHANGED <<rawJson, keyEndpoints, capabilities, otherFields, error,
                         errorDetails, jwksData, jwksError, isLoading, isLoadingJwks,
                         viewMode, lastAttemptedUrl, primaryReqs, jwksReqs>>]_vars

\* a paste was rejected while a retrieval error and a key-set request in flight stay
C29_Witness ==
    /\ pasteError = NotJson.msg
    /\ error # <<>>
    /\ rawJson # NoText
    /\ isLoadingJwks

\* C30: every request being answered, a started primary fetch ends with the loading
\* flag cleared and a document loaded or an error shown, and a started key-set fetch
\* ends with the key-set loading flag cleared
C30_LoadingEnds ==
    /\ isLoading ~> (~isLoading /\ (rawJson # NoText \/ error # <<>>))
    /\ isLoadingJwks ~> ~isLoadingJwks

\* a primary fetch has ended with a document and its key-set fetch with an error
C30_Witness ==
    /\ ~isLoading /\ primaryReqs = <<>> /\ rawJson # NoText
    /\ ~isLoadingJwks /\ jwksReqs = <<>> /\ jwksError # ""
    /\ probe.resp # NoAnswer

OtherTab(tab) == CHOOSE other \in Tabs : other # tab

\* C22: the two pipelines are independent instances: a step of one leaves the state
\* and the requests of the other unchanged, each resolves a URL with its own
\* canonical path, and a change of the active tab changes the state of neither and
\* cancels no request in flight
C22_IndependentInstances ==
    /\ [](\A tab \in Tabs : \A i \in 1..Len(probe.inst[tab].primaryReqs) :
             probe.inst[tab].primaryReqs[i].url = Issuer \o discoveryPath(tab))
    /\ [](DEFAULT_OIDC_DISCOVERY_PATH # DEFAULT_OAUTH_DISCOVERY_PATH)
    /\ [][/\ \A tab \in Tabs :
               probe'.inst[tab] # probe.inst[tab] =>
                   /\ probe'.inst[OtherTab(tab)] = probe.inst[OtherTab(tab)]
                   /\ probe'.activeTab = probe.activeTab
          /\ probe'.activeTab # probe.activeTab => probe'.inst = probe.inst]_vars

\* the hidden OpenID instance shows its document and its key set while the OAuth
\* instance, now shown, has a fetch of its own in flight
C22_Witness ==
    /\ probe.activeTab = "oauth-authorization-server"
    /\ probe.inst["openid-configuration"].ui.rawJson # NoText
    /\ Truthy(probe.inst["openid-configuration"].ui.jwksData)
    /\ probe.inst["oauth-authorization-server"].ui.isLoading
    /\ probe.inst["oauth-authorization-server"].primaryReqs =
           <<[url |-> Issuer \o DEFAULT_OAUTH_DISCOVERY_PATH]>>

====
